---- MODULE Spec2Model ----
(***************************************************************************)
(* A model of the STXXL external sorter: the push-mode and stream-mode run *)
(* creators, the run merger (native loser-tree frontier) and the sorter    *)
(* container that composes them (sorter.h, sort_stream.h, sort_helper.h).  *)
(*                                                                         *)
(* Elements are small integers compared with <.  A block holds             *)
(* block_type_size elements and an element takes one byte.  The block      *)
(* manager hands out the lowest block ids that are neither allocated nor   *)
(* the target of a request still in its queue.                             *)
(***************************************************************************)
EXTENDS Integers, Sequences, FiniteSets

(***************************************************************************)
(* Bounds of the model.                                                    *)
(***************************************************************************)
\* elements per block (block_type::size) of the sorters of every
\* specification but the end-to-end scenario
B == 2
\* the comparator's max_value(); min_value() is 0
MaxVal == 1
\* number of disks reported by the block manager configuration
Disks == 1
\* creator memory in blocks: memory_to_use = CreatorBlocks * BlockSize
CreatorBlocks == 2
\* number of elements pushed between two clear() calls: MaxPush when the
\* caller uses every operation, RecPush when the caller pushes, sorts,
\* rewinds and reads (enough runs for two recursive merge passes)
MaxPush == 5
RecPush == 11
\* number of requests that survive the cancel() of clear()
MaxStale == 1
\* length of the input stream of the stream-mode creator
StreamLen == 7
\* constructor arguments tried: memory_to_use, BlockSize, memory usage factor
MaxMemory == 12
MaxBlockSize == 4
MaxFactor == 2
\* the end-to-end scenario: elements per block, creator (and merger) memory
\* in blocks, and the number of elements pushed
ScenarioB == 4
ScenarioBlocks == 4
ScenarioPush == 8
\* pushes between two clear() calls of the sorter with a parallel merger
ParPush == 9

(***************************************************************************)
(* The configuration of the sorter under study: the arguments its creator  *)
(* was constructed with.  An element takes one byte.                       *)
(***************************************************************************)
\* a creator constructor call: its arguments and outcome
VARIABLE ctor

\* block_type::size, in elements
block_type_size == ctor.block_size

(***************************************************************************)
(* Comparator with sentinels.                                              *)
(***************************************************************************)
Val == 0..MaxVal
min_value == 0
max_value == MaxVal
cmp(a, b) == a < b

\* what a read returns for a block whose data never reached the disk
Junk == 0 - 1

Min(a, b) == IF a < b THEN a ELSE b
Max(a, b) == IF a < b THEN b ELSE a
div_ceil(a, b) == (a + b - 1) \div b

RECURSIVE Insert(_, _)
Insert(s, x) ==
    IF s = <<>> THEN <<x>>
    ELSE IF cmp(x, Head(s)) THEN <<x>> \o s
    ELSE <<Head(s)>> \o Insert(Tail(s), x)

\* std::sort of a range under cmp
RECURSIVE sort_range(_)
sort_range(s) == IF s = <<>> THEN <<>> ELSE Insert(sort_range(Tail(s)), Head(s))

is_sorted(s) == \A i \in 1..(Len(s) - 1) : ~cmp(s[i + 1], s[i])

RECURSIVE SumSeq(_)
SumSeq(s) == IF s = <<>> THEN 0 ELSE Head(s) + SumSeq(Tail(s))

RECURSIVE Flatten(_)
Flatten(ss) == IF ss = <<>> THEN <<>> ELSE Head(ss) \o Flatten(Tail(ss))

Range(s) == {s[i] : i \in DOMAIN s}

\* block i (0-based) of a buffer given as a flat sequence of elements
BlockOf(buf, i) == SubSeq(buf, i * block_type_size + 1, (i + 1) * block_type_size)

(***************************************************************************)
(* Memory arithmetic of the constructors.                                  *)
(***************************************************************************)
BlockSize == block_type_size
sort_memory_usage_factor == 1

memsize(memory_to_use, block_size, factor) == (memory_to_use \div block_size) \div factor

\* fault: the constructor's test with a strict comparison
creator_throws_strict(memory_to_use, block_size, factor) ==
    ~(2 * block_size * factor < memory_to_use)

\* the constructor's test: TRUE iff it throws bad_parameter
creator_throws(memory_to_use, block_size, factor) ==
    ~(2 * block_size * factor <= memory_to_use)

m_memory_to_use_rc == ctor.memory_to_use
m_memsize == memsize(m_memory_to_use_rc, BlockSize, sort_memory_usage_factor)
m_m2 == m_memsize \div 2
\* fault: a run of one block
el_in_block == block_type_size

m_el_in_run == m_m2 * block_type_size

(***************************************************************************)
(* sorted_runs: the descriptor shared by creator and merger.               *)
(***************************************************************************)
EmptyRuns == [runs |-> <<>>, runs_sizes |-> <<>>, elements |-> 0, small_run |-> <<>>]

add_run(d, run, run_size) ==
    [d EXCEPT !.runs = Append(@, run),
              !.runs_sizes = Append(@, run_size),
              !.elements = @ + run_size]

RunBids(run) == {run[i].bid : i \in DOMAIN run}
DescBids(d) == UNION {RunBids(d.runs[r]) : r \in DOMAIN d.runs}

(***************************************************************************)
(* Block manager: alloc is the set of allocated block ids, disk[b] the     *)
(* data of block b (<<>> while nothing was written or after b was freed),  *)
(* wpend the write requests issued and not yet completed, each with the    *)
(* data of the block it transports.  used is TRUE once a block id was      *)
(* allocated or a read or write request was issued since the last clear.   *)
(***************************************************************************)
BidSpace == 1..(2 * div_ceil(RecPush, block_type_size) + 2 * m_m2 + 2)

BmInit == [alloc |-> {}, disk |-> [b \in BidSpace |-> <<>>], wpend |-> {}, used |-> FALSE]

FreeBids(bm) == BidSpace \ (bm.alloc \cup {r.bid : r \in bm.wpend})

\* the n lowest ids of a set, in increasing order
RECURSIVE Lowest(_, _)
Lowest(ids, n) ==
    IF n = 0 THEN <<>>
    ELSE LET b == CHOOSE x \in ids : \A y \in ids : x <= y
         IN  <<b>> \o Lowest(ids \ {b}, n - 1)

\* run.resize(n); bm->new_blocks(...): the n entries of the run get new ids
fresh_run(bm, n) ==
    LET ids == Lowest(FreeBids(bm), n)
    IN  [i \in 1..n |-> [bid |-> ids[i], value |-> min_value]]

\* new_blocks: the ids of run become allocated
new_blocks(bm, run) == [bm EXCEPT !.alloc = @ \cup RunBids(run), !.used = TRUE]

delete_blocks(bm, bids) ==
    [bm EXCEPT !.alloc = @ \ bids,
               !.disk = [b \in BidSpace |-> IF b \in bids THEN <<>> ELSE @[b]]]

\* the data a completed write leaves on disk
Land(bm, r) ==
    IF r.bid \in bm.alloc
      THEN [bm EXCEPT !.disk[r.bid] = r.data, !.wpend = @ \ {r}]
      ELSE [bm EXCEPT !.wpend = @ \ {r}]

PendingOn(bm, bid) == {r \in bm.wpend : r.bid = bid}

\* request::wait() on the request that targets bid (0: null request_ptr)
wait(bm, bid) ==
    IF bid # 0 /\ PendingOn(bm, bid) # {}
      THEN Land(bm, CHOOSE r \in PendingOn(bm, bid) : TRUE)
      ELSE bm

\* block.write(bid): an asynchronous request
write(bm, bid, data, half, slot) ==
    [bm EXCEPT !.wpend = @ \cup {[bid |-> bid, data |-> data, half |-> half, slot |-> slot]},
               !.used = TRUE]

\* block.read(bid) followed by wait: the data on disk
read(bm, bid) ==
    IF bm.disk[bid] # <<>>
      THEN bm.disk[bid]
      ELSE [i \in 1..block_type_size |-> Junk]

(***************************************************************************)
(* runs_creator<use_push>.  m_blocks1 is the valid prefix of the fill      *)
(* half (the elements stored since the last flush; after compute_result    *)
(* the sorted and padded run), half names the memory half m_blocks1 points *)
(* to (0: nullptr), m_write_reqs[i] the block id targeted by the request   *)
(* held in slot i while that request is pending (0: a null request_ptr or  *)
(* a request that completed or was cancelled; wait() and cancel() return   *)
(* at once on both).                                                       *)
(***************************************************************************)
NoReqs == [i \in 1..m_m2 |-> 0]

CreatorNew ==
    [m_result_computed |-> FALSE, m_cur_el |-> 0, m_blocks1 |-> <<>>,
     half |-> 0, m_write_reqs |-> <<>>]

\* fault: the tail of the last block padded with the least value
fill_with_min_value(buf, num_blocks, first_idx) ==
    SubSeq(buf, 1, first_idx) \o [i \in 1..(num_blocks * block_type_size - first_idx) |-> min_value]

\* fill_with_max_value(blocks, num_blocks, first_idx)
fill_with_max_value(buf, num_blocks, first_idx) ==
    LET last_idx == num_blocks * block_type_size
    IN  IF first_idx < last_idx
          THEN SubSeq(buf, 1, first_idx) \o [i \in 1..(last_idx - first_idx) |-> max_value]
          ELSE buf

\* fault: a run written as it was filled
sort_run_skipped(buf, elements) == buf

\* sort_run(run, elements): sorts the first `elements` cells
sort_run(buf, elements) ==
    sort_range(SubSeq(buf, 1, elements)) \o SubSeq(buf, elements + 1, Len(buf))

\* fault: the write loop issuing each write without waiting for the
\* request held in the slot
RECURSIVE write_blocks_unwaited(_, _, _, _)
write_blocks_unwaited(st, buf, i, n) ==
    IF i >= n THEN st
    ELSE write_blocks_unwaited(
             [c   |-> [st.c EXCEPT !.m_write_reqs[i + 1] = st.run[i + 1].bid],
              bm  |-> write(st.bm, st.run[i + 1].bid, BlockOf(buf, i), st.c.half, i + 1),
              run |-> [st.run EXCEPT ![i + 1].value = BlockOf(buf, i)[1]]],
             buf, i + 1, n)

\* fault: the trigger of a block is its last element
RECURSIVE write_blocks_last_trigger(_, _, _, _)
write_blocks_last_trigger(st, buf, i, n) ==
    IF i >= n THEN st
    ELSE LET bid == st.run[i + 1].bid
             bm1 == wait(st.bm, st.c.m_write_reqs[i + 1])
             bm2 == write(bm1, bid, BlockOf(buf, i), st.c.half, i + 1)
         IN  write_blocks_last_trigger(
                 [c   |-> [st.c EXCEPT !.m_write_reqs[i + 1] = bid],
                  bm  |-> bm2,
                  run |-> [st.run EXCEPT ![i + 1].value = BlockOf(buf, i)[block_type_size]]],
                 buf, i + 1, n)

\* the loop that sets the triggers, waits for the request in slot i and
\* issues the write of block i, for i = from .. n-1; st = [c, bm, run]
RECURSIVE write_blocks(_, _, _, _)
write_blocks(st, buf, i, n) ==
    IF i >= n THEN st
    ELSE LET bid == st.run[i + 1].bid
             bm1 == wait(st.bm, st.c.m_write_reqs[i + 1])
             bm2 == write(bm1, bid, BlockOf(buf, i), st.c.half, i + 1)
         IN  write_blocks(
                 [c   |-> [st.c EXCEPT !.m_write_reqs[i + 1] = bid],
                  bm  |-> bm2,
                  run |-> [st.run EXCEPT ![i + 1].value = BlockOf(buf, i)[1]]],
                 buf, i + 1, n)

\* fault: compute_result returns without waiting for its write requests
wait_slots_skipped(bm, reqs, i) == bm

RECURSIVE wait_slots(_, _, _)
wait_slots(bm, reqs, i) ==
    IF i > Len(reqs) THEN bm ELSE wait_slots(wait(bm, reqs[i]), reqs, i + 1)

\* fault: the small-input test without the case of a full block
small_input_strict(cur_el, elements) == cur_el < block_type_size /\ elements = 0

\* the test of compute_result for the small-input path
small_input(cur_el, elements) == cur_el <= block_type_size /\ elements = 0

\* fault: the final run takes the blocks of a whole run
compute_result_whole_run(st) ==
    LET c == st.c
    IN  IF c.m_cur_el = 0 THEN st
        ELSE
          LET sorted == sort_run(c.m_blocks1, c.m_cur_el)
          IN  IF small_input(c.m_cur_el, st.d.elements)
                THEN [c  |-> [c EXCEPT !.m_blocks1 = sorted],
                      d  |-> [st.d EXCEPT !.small_run = SubSeq(sorted, 1, c.m_cur_el),
                                          !.elements = c.m_cur_el],
                      bm |-> st.bm]
                ELSE
                  LET cur_run_size == div_ceil(m_el_in_run, block_type_size)
                      run0   == fresh_run(st.bm, cur_run_size)
                      bm1    == new_blocks(st.bm, run0)
                      padded == fill_with_max_value(sorted, cur_run_size, c.m_cur_el)
                      w      == write_blocks([c |-> [c EXCEPT !.m_blocks1 = padded],
                                              bm |-> bm1, run |-> run0],
                                             padded, 0, cur_run_size)
                  IN  [c  |-> [w.c EXCEPT !.m_write_reqs = NoReqs],
                       d  |-> add_run(st.d, w.run, c.m_cur_el),
                       bm |-> wait_slots(w.bm, w.c.m_write_reqs, 1)]

\* runs_creator<use_push>::compute_result; st = [c, d, bm]
compute_result(st) ==
    LET c == st.c
    IN  IF c.m_cur_el = 0 THEN st
        ELSE
          LET sorted == sort_run(c.m_blocks1, c.m_cur_el)
          IN  IF small_input(c.m_cur_el, st.d.elements)
                THEN [c  |-> [c EXCEPT !.m_blocks1 = sorted],
                      d  |-> [st.d EXCEPT !.small_run = SubSeq(sorted, 1, c.m_cur_el),
                                          !.elements = c.m_cur_el],
                      bm |-> st.bm]
                ELSE
                  LET cur_run_size == div_ceil(c.m_cur_el, block_type_size)
                      run0   == fresh_run(st.bm, cur_run_size)
                      bm1    == new_blocks(st.bm, run0)
                      padded == fill_with_max_value(sorted, cur_run_size, c.m_cur_el)
                      w      == write_blocks([c |-> [c EXCEPT !.m_blocks1 = padded],
                                              bm |-> bm1, run |-> run0],
                                             padded, 0, cur_run_size)
                  IN  [c  |-> [w.c EXCEPT !.m_write_reqs = NoReqs],
                       d  |-> add_run(st.d, w.run, c.m_cur_el),
                       bm |-> wait_slots(w.bm, w.c.m_write_reqs, 1)]

\* runs_creator<use_push>::result
result(st) ==
    IF ~st.c.m_result_computed
      THEN LET r == compute_result(st)
           IN  [r EXCEPT !.c.m_result_computed = TRUE]
      ELSE st

\* sorted_runs::clear: frees the blocks of all runs and empties the object
sruns_clear(st) ==
    [st EXCEPT !.bm = delete_blocks(@, DescBids(st.d)), !.d = EmptyRuns]

\* the requests held in the slots that are still pending
SlotRequests(st) ==
    {r \in st.bm.wpend : \E i \in DOMAIN st.c.m_write_reqs : st.c.m_write_reqs[i] = r.bid}

\* fault: a clear that keeps the elements of the fill buffer
creator_clear_keeps(st, cancelled) ==
    [sruns_clear(st) EXCEPT !.c.m_result_computed = FALSE,
                            !.c.m_write_reqs = [i \in DOMAIN @ |->
                                IF \E r \in cancelled : r.bid = @[i] THEN 0 ELSE @[i]],
                            !.bm.wpend = @ \ cancelled,
                            !.bm.used = FALSE]

\* runs_creator<use_push>::clear; cancelled: the requests whose cancel()
\* succeeds (the others are already being served and complete later)
creator_clear(st, cancelled) ==
    LET s1 == sruns_clear(st)
    IN  [s1 EXCEPT !.c.m_result_computed = FALSE,
                   !.c.m_cur_el = 0,
                   !.c.m_blocks1 = <<>>,
                   !.c.m_write_reqs = [i \in DOMAIN @ |->
                       IF \E r \in cancelled : r.bid = @[i] THEN 0 ELSE @[i]],
                   !.bm.wpend = @ \ cancelled,
                   !.bm.used = FALSE]

\* runs_creator<use_push>::allocate
allocate(st, cancelled) ==
    LET s1 == IF st.c.half = 0
                THEN [st EXCEPT !.c.half = 1, !.c.m_write_reqs = NoReqs]
                ELSE st
    IN  creator_clear(s1, cancelled)

\* fault: a deallocate that also drops the runs of the result
deallocate_drops(st) ==
    [sruns_clear(result(st)) EXCEPT !.c.half = 0, !.c.m_blocks1 = <<>>,
                                    !.c.m_write_reqs = <<>>]

\* runs_creator<use_push>::deallocate
deallocate(st) ==
    LET s1 == result(st)
    IN  IF s1.c.half # 0
          THEN [s1 EXCEPT !.c.half = 0, !.c.m_blocks1 = <<>>, !.c.m_write_reqs = <<>>]
          ELSE s1

\* fault: a push that flushes the run as soon as its element fills the half
creator_push_eager(st, val) ==
    LET c == st.c
        filled == Append(SubSeq(c.m_blocks1, 1, c.m_cur_el), val)
    IN  IF c.m_cur_el + 1 < m_el_in_run
          THEN [st EXCEPT !.c.m_blocks1 = filled, !.c.m_cur_el = @ + 1]
          ELSE
            LET sorted == sort_run(filled, m_el_in_run)
                cur_run_blocks == div_ceil(m_el_in_run, block_type_size)
                run0 == fresh_run(st.bm, cur_run_blocks)
                bm1  == new_blocks(st.bm, run0)
                w    == write_blocks([c |-> c, bm |-> bm1, run |-> run0],
                                     sorted, 0, cur_run_blocks)
            IN  [c  |-> [w.c EXCEPT !.half = 3 - @,
                                    !.m_cur_el = 0,
                                    !.m_blocks1 = <<>>],
                 d  |-> add_run(st.d, w.run, m_el_in_run),
                 bm |-> w.bm]

\* runs_creator<use_push>::push, called with the result not yet computed
creator_push(st, val) ==
    LET c == st.c
    IN  IF c.m_cur_el < m_el_in_run
          THEN [st EXCEPT !.c.m_blocks1 = Append(SubSeq(@, 1, c.m_cur_el), val),
                          !.c.m_cur_el = @ + 1]
          ELSE
            LET sorted == sort_run(c.m_blocks1, m_el_in_run)
                cur_run_blocks == div_ceil(m_el_in_run, block_type_size)
                run0 == fresh_run(st.bm, cur_run_blocks)
                bm1  == new_blocks(st.bm, run0)
                w    == write_blocks([c |-> c, bm |-> bm1, run |-> run0],
                                     sorted, 0, cur_run_blocks)
            IN  [c  |-> [w.c EXCEPT !.half = 3 - @,
                                    !.m_cur_el = 1,
                                    !.m_blocks1 = <<val>>],
                 d  |-> add_run(st.d, w.run, m_el_in_run),
                 bm |-> w.bm]

\* runs_creator<use_push>::size
creator_size(c, d) == d.elements + c.m_cur_el

(***************************************************************************)
(* basic_runs_creator (stream mode).  A creator state is [input, d, bm,    *)
(* reqs]: the rest of the input stream, the sorted_runs object, the block  *)
(* manager and write_reqs as m_write_reqs above.                           *)
(***************************************************************************)
\* run.resize(div_ceil(len, B)); new_blocks; fill_with_max_value; the loop
\* that sets the triggers, waits for slot i and writes block i; extra slots
\* stand for write_reqs1
stream_write(st, buf, len) ==
    LET n == div_ceil(len, block_type_size)
        issued(run0) ==
            write_blocks([c   |-> [m_write_reqs |->
                                       st.reqs \o [i \in 1..(n - Len(st.reqs)) |-> 0],
                                   half |-> 1],
                          bm  |-> new_blocks(st.bm, run0),
                          run |-> run0],
                         fill_with_max_value(buf, n, len), 0, n)
    IN  issued(fresh_run(st.bm, n))

\* the general case: "while (!m_input.empty())" with the second run as its
\* first round: fetch el_in_run elements, sort, write, add_run
RECURSIVE stream_runs(_)
stream_runs(st) ==
    IF st.input = <<>> THEN [st EXCEPT !.bm = wait_slots(@, st.reqs, 1)]
    ELSE LET length == Min(m_el_in_run, Len(st.input))
             added(w) ==
                 stream_runs([input |-> SubSeq(st.input, length + 1, Len(st.input)),
                              d     |-> add_run(st.d, w.run, length),
                              bm    |-> w.bm,
                              reqs  |-> SubSeq(w.c.m_write_reqs, 1, m_m2)])
         IN  added(stream_write(st, sort_run(SubSeq(st.input, 1, length), length), length))

\* fault: the blocks of the first run stay allocated when both halves are
\* written as one run
stream_two_halves_keeps(st, Blocks1, run) ==
    LET blocks2_length == Len(st.input) + m_el_in_run
        rewritten(w) ==
            [input |-> <<>>,
             d     |-> [st.d EXCEPT !.runs[1] = w.run,
                                    !.runs_sizes[1] = blocks2_length,
                                    !.elements = blocks2_length],
             bm    |-> wait_slots(w.bm, w.c.m_write_reqs, 1),
             reqs  |-> NoReqs]
    IN  rewritten(stream_write(
            [st EXCEPT !.bm = wait_slots(@, st.reqs, 1)],
            sort_run(Blocks1 \o st.input, blocks2_length), blocks2_length))

\* the whole input fits into both halves: the first run is dropped and
\* both halves are sorted and written as one run
stream_two_halves(st, Blocks1, run) ==
    LET blocks2_length == Len(st.input) + m_el_in_run
        rewritten(w) ==
            [input |-> <<>>,
             d     |-> [st.d EXCEPT !.runs[1] = w.run,
                                    !.runs_sizes[1] = blocks2_length,
                                    !.elements = blocks2_length],
             bm    |-> wait_slots(w.bm, w.c.m_write_reqs, 1),
             reqs  |-> NoReqs]
    IN  rewritten(stream_write(
            [st EXCEPT !.bm = delete_blocks(wait_slots(@, st.reqs, 1), RunBids(run))],
            sort_run(Blocks1 \o st.input, blocks2_length), blocks2_length))

\* basic_runs_creator::compute_result
stream_compute_result(st) ==
    LET blocks1_length == Min(m_el_in_run, Len(st.input))
        rest == SubSeq(st.input, blocks1_length + 1, Len(st.input))
        first_written(w, Blocks1) ==
            LET s1 == [input |-> rest,
                       d     |-> [st.d EXCEPT !.runs = Append(@, w.run),
                                              !.runs_sizes = Append(@, blocks1_length),
                                              !.elements = @ + blocks1_length],
                       bm    |-> w.bm,
                       reqs  |-> SubSeq(w.c.m_write_reqs, 1, m_m2)]
            IN  IF rest = <<>>
                  THEN [s1 EXCEPT !.bm = wait_slots(@, s1.reqs, 1)]
                ELSE IF Len(rest) <= m_el_in_run
                  THEN stream_two_halves(s1, Blocks1, w.run)
                ELSE stream_runs(s1)
        sorted(Blocks1) ==
            IF blocks1_length <= block_type_size /\ rest = <<>>
              THEN [st EXCEPT !.input = <<>>,
                              !.d.small_run = Blocks1,
                              !.d.elements = blocks1_length]
              ELSE first_written(stream_write(st, Blocks1, blocks1_length), Blocks1)
    IN  sorted(sort_run(SubSeq(st.input, 1, blocks1_length), blocks1_length))

(***************************************************************************)
(* basic_runs_merger.  base tells where m_current_ptr points ("small": the *)
(* descriptor's small_run, "buf": m_buffer_block), m_current_ptr and       *)
(* m_current_end are offsets from its start.  m_buffer_block holds the     *)
(* cells staged by the last refill.  m_prefetcher is "null" or "live";     *)
(* losers is "null", "live" or "deleted" (delete m_losers leaves the       *)
(* pointer dangling).  m_consume_seq is the consume sequence as the        *)
(* prefetcher holds it (m_prefetch_seq with it), pos the prefetcher's      *)
(* position in it: the number of blocks it has delivered.                  *)
(***************************************************************************)
MergerNew(memory_to_use) ==
    [m_memory_to_use |-> memory_to_use, m_sruns |-> "null",
     m_elements_remaining |-> 0, m_buffer_block |-> <<>>,
     base |-> "none", m_current_ptr |-> 0, m_current_end |-> 0,
     m_consume_seq |-> <<>>, m_prefetcher |-> "null", pos |-> 0,
     m_losers |-> <<>>, losers |-> "null"]

raw_size == BlockSize
sizeof_block == BlockSize

min_prefetch_buffers == 2 * Disks

input_buffers(memory_to_use) ==
    (IF memory_to_use > sizeof_block THEN memory_to_use - sizeof_block ELSE 0) \div raw_size

recursive_merge_buffers(memory_to_use) == memory_to_use \div raw_size

\* the test of initialize: a single pass cannot merge nruns runs
needs_recursion(memory_to_use, nruns) ==
    input_buffers(memory_to_use) < nruns + min_prefetch_buffers

\* fault: the test of initialize asking for one more block
insufficient_memory_plus(memory_to_use) ==
    recursive_merge_buffers(memory_to_use) < 2 * min_prefetch_buffers + 1 + 3

\* the test of initialize: not enough memory to merge recursively
insufficient_memory(memory_to_use) ==
    recursive_merge_buffers(memory_to_use) < 2 * min_prefetch_buffers + 1 + 2

nwrite_buffers == 2 * Disks
memory_for_write_buffers == nwrite_buffers * sizeof_block
memory_for_buffers ==
    memory_for_write_buffers + 2 * Disks * sizeof_block + sizeof_block

\* fault: an arity that leaves no room for the buffers
max_arity_unbuffered(memory_to_use) == memory_to_use \div raw_size

\* fault: an arity that forgets the output block of the recursive merger
max_arity_no_out_block(memory_to_use) ==
    (IF memory_to_use > memory_for_buffers - sizeof_block
       THEN memory_to_use - (memory_for_buffers - sizeof_block) ELSE 0) \div raw_size

max_arity(memory_to_use) ==
    (IF memory_to_use > memory_for_buffers
       THEN memory_to_use - memory_for_buffers ELSE 0) \div raw_size

\* x to the power p
RECURSIVE Pow(_, _)
Pow(x, p) == IF p = 0 THEN 1 ELSE x * Pow(x, p - 1)

\* optimal_merge_factor(num_runs, max_concurrent_runs) =
\* ceil(num_runs ^ (1 / ceil(log(num_runs) / log(max_concurrent_runs)))),
\* for num_runs > max_concurrent_runs >= 2
optimal_merge_factor(num_runs, max_concurrent_runs) ==
    LET passes == CHOOSE p \in 1..num_runs :
                      /\ Pow(max_concurrent_runs, p) >= num_runs
                      /\ \A q \in 1..(p - 1) : Pow(max_concurrent_runs, q) < num_runs
    IN  CHOOSE f \in 1..num_runs :
            /\ Pow(f, passes) >= num_runs
            /\ \A g \in 1..(f - 1) : Pow(g, passes) < num_runs

\* trigger_entry_cmp
trigger_entry_cmp(a, b) == cmp(a.value, b.value)

\* fault: the insertion step placing an entry behind the entries of equal
\* trigger value
RECURSIVE stable_insert_after(_, _)
stable_insert_after(s, x) ==
    IF s = <<>> THEN <<x>>
    ELSE IF ~trigger_entry_cmp(x, Head(s))
           THEN <<Head(s)>> \o stable_insert_after(Tail(s), x)
           ELSE <<x>> \o s

RECURSIVE stable_insert(_, _)
stable_insert(s, x) ==
    IF s = <<>> THEN <<x>>
    ELSE IF trigger_entry_cmp(Head(s), x)
           THEN <<Head(s)>> \o stable_insert(Tail(s), x)
           ELSE <<x>> \o s

\* std::stable_sort of the consume sequence with trigger_entry_cmp
RECURSIVE stable_sort(_)
stable_sort(s) ==
    IF s = <<>> THEN <<>> ELSE stable_insert(stable_sort(Tail(s)), Head(s))

\* deallocate_prefetcher
deallocate_prefetcher(m) ==
    IF m.m_prefetcher # "null"
      THEN [m EXCEPT !.m_prefetcher = "null", !.losers = "deleted",
                     !.m_losers = <<>>, !.m_consume_seq = <<>>, !.pos = 0]
      ELSE m

\* run_cursor2::empty
cursor_empty(cur) == cur.pos >= block_type_size

\* run_cursor2::current
cursor_current(cur) == cur.buffer[cur.pos + 1]

\* run_cursor2_cmp
run_cursor2_cmp(a, b) ==
    IF cursor_empty(b) THEN TRUE
    ELSE IF cursor_empty(a) THEN FALSE
    ELSE cmp(cursor_current(a), cursor_current(b))

\* the loser tree's winner: the first cursor that no cursor precedes
Winner(cursors) ==
    CHOOSE i \in DOMAIN cursors :
        /\ \A j \in DOMAIN cursors :
              j # i => ~(run_cursor2_cmp(cursors[j], cursors[i]) /\ ~cursor_empty(cursors[j]))
        /\ \A k \in 1..(i - 1) :
              \E j \in DOMAIN cursors :
                  j # k /\ run_cursor2_cmp(cursors[j], cursors[k]) /\ ~cursor_empty(cursors[j])

\* run_cursor2::operator++ with block_prefetcher::block_consumed: a cursor
\* that leaves its block takes the next block of the consume sequence
cursor_advance(st, i) ==
    LET cur == st.m.m_losers[i]
        np  == cur.pos + 1
    IN  IF np >= block_type_size /\ st.m.pos < Len(st.m.m_consume_seq)
          THEN [st EXCEPT !.m.m_losers[i] =
                              [buffer |-> read(st.bm, st.m.m_consume_seq[st.m.pos + 1].bid),
                               pos |-> 0],
                          !.m.pos = @ + 1,
                          !.bm.used = TRUE]
          ELSE [st EXCEPT !.m.m_losers[i].pos = np]

\* loser_tree::multi_merge(begin, begin + n): st with the n elements in acc
RECURSIVE multi_merge(_, _, _)
multi_merge(st, n, acc) ==
    IF n = 0 THEN [st |-> st, out |-> acc]
    ELSE LET w == Winner(st.m.m_losers)
             v == IF cursor_empty(st.m.m_losers[w])
                    THEN Junk ELSE cursor_current(st.m.m_losers[w])
         IN  multi_merge(IF cursor_empty(st.m.m_losers[w]) THEN st ELSE cursor_advance(st, w),
                         n - 1, Append(acc, v))

\* fault: a refill that always stages a whole output block
fill_buffer_block_full(st) ==
    LET staged(mm) ==
            [mm.st EXCEPT !.m = [(IF @.m_elements_remaining <= block_type_size
                                    THEN deallocate_prefetcher(@) ELSE @)
                                 EXCEPT !.m_buffer_block = mm.out,
                                        !.base = "buf",
                                        !.m_current_ptr = 0,
                                        !.m_current_end = block_type_size]]
    IN  staged(multi_merge(st, block_type_size, <<>>))

\* fault: a refill that leaves the prefetcher and the loser tree in place
fill_buffer_block_keeps(st) ==
    LET staged(mm, n) ==
            [mm.st EXCEPT !.m = [@ EXCEPT !.m_buffer_block = mm.out,
                                          !.base = "buf",
                                          !.m_current_ptr = 0,
                                          !.m_current_end = n]]
        merged(n) == staged(multi_merge(st, n, <<>>), n)
    IN  merged(Min(block_type_size, st.m.m_elements_remaining))

\* basic_runs_merger::fill_buffer_block (native merging), called with the
\* loser tree alive
fill_buffer_block(st) ==
    LET staged(mm, n) ==
            [mm.st EXCEPT !.m = [(IF @.m_elements_remaining <= block_type_size
                                    THEN deallocate_prefetcher(@) ELSE @)
                                 EXCEPT !.m_buffer_block = mm.out,
                                        !.base = "buf",
                                        !.m_current_ptr = 0,
                                        !.m_current_end = n]]
        merged(n) == staged(multi_merge(st, n, <<>>), n)
    IN  merged(Min(block_type_size, st.m.m_elements_remaining))

\* basic_runs_merger::empty
merger_empty(m) == m.m_elements_remaining = 0

\* fault: a size() that counts the elements left in the output block
merger_size_buffered(m) == m.m_current_end - m.m_current_ptr

\* basic_runs_merger::size
merger_size(m) == m.m_elements_remaining

\* basic_runs_merger::operator*
merger_current(st) ==
    IF st.m.base = "small"
      THEN (IF st.m.m_current_ptr < Len(st.d.small_run)
              THEN st.d.small_run[st.m.m_current_ptr + 1] ELSE Junk)
      ELSE (IF st.m.m_current_ptr < Len(st.m.m_buffer_block)
              THEN st.m.m_buffer_block[st.m.m_current_ptr + 1] ELSE Junk)

\* basic_runs_merger::next_output_would_block
next_output_would_block(m) == m.m_current_ptr + 1 = m.m_current_end

\* the refill test of operator++, evaluated after the two updates
refill_due(m) ==
    m.m_current_ptr + 1 = m.m_current_end /\ m.m_elements_remaining - 1 # 0

\* basic_runs_merger::operator++, called on a non-empty stream
merger_advance(st) ==
    LET s1 == [st EXCEPT !.m.m_elements_remaining = @ - 1,
                         !.m.m_current_ptr = @ + 1]
    IN  IF s1.m.m_current_ptr = s1.m.m_current_end /\ ~merger_empty(s1.m)
          THEN fill_buffer_block(s1)
          ELSE s1

\* basic_runs_merger::deallocate
merger_deallocate(m) == [deallocate_prefetcher(m) EXCEPT !.m_sruns = "null"]

(***************************************************************************)
(* initialize and merge_recursively.  A merger state st is                 *)
(* [m, d, bm, thrown]: the merger, the sorted_runs object m_sruns points   *)
(* to, the block manager, and the exception that left the call ("none"     *)
(* when it returned).                                                      *)
(***************************************************************************)
RECURSIVE initialize(_)

\* fault: a copy loop that stores each element in front of the earlier ones
RECURSIVE drain_prepends(_, _, _)
drain_prepends(st, cnt, acc) ==
    IF cnt = 0 THEN [st |-> st, out |-> acc]
    ELSE drain_prepends(merger_advance(st), cnt - 1, <<merger_current(st)>> \o acc)

\* the loop "while (cnt != cnt_max) { *out = *merger; ++cnt, ++out, ++merger; }"
RECURSIVE drain(_, _, _)
drain(st, cnt, acc) ==
    IF cnt = 0 THEN [st |-> st, out |-> acc]
    ELSE drain(merger_advance(st), cnt - 1, Append(acc, merger_current(st)))

\* the blocks a buf_ostream leaves on disk: block j of vals goes to run[j].bid
RECURSIVE write_run(_, _, _, _)
write_run(bm, run, vals, j) ==
    IF j > Len(run) THEN bm
    ELSE write_run([bm EXCEPT !.disk[run[j].bid] = BlockOf(vals, j - 1), !.used = TRUE],
                   run, vals, j + 1)

\* fault: the runs of a merged group keep their blocks
merge_group_leaks(acc, nruns, runs_left, merge_factor) ==
    LET st         == acc.st
        runs2merge == Min(runs_left, merge_factor)
        first      == nruns - runs_left
        group      == SubSeq(st.d.runs, first + 1, first + runs2merge)
        sizes      == SubSeq(st.d.runs_sizes, first + 1, first + runs2merge)
        cur_runs(elements_in_new_run) ==
            [runs |-> group, runs_sizes |-> sizes,
             elements |-> elements_in_new_run, small_run |-> <<>>]
        \* the new run is written
        written(drst, vals, run0, elements_in_new_run) ==
            [st |-> [st EXCEPT !.bm = write_run(drst.bm, run0, vals, 1)],
             new_runs |-> [acc.new_runs EXCEPT
                              !.runs = Append(@,
                                  [j \in 1..Len(run0) |->
                                      [bid |-> run0[j].bid,
                                       value |-> BlockOf(vals, j - 1)[1]]]),
                              !.runs_sizes = Append(@, elements_in_new_run)]]
        \* the inner merger is drained into the buffered writer
        drained(dr, run0, elements_in_new_run) ==
            written(dr.st,
                    fill_with_max_value(dr.out, Len(run0), elements_in_new_run),
                    run0, elements_in_new_run)
        merged(inner, run0, elements_in_new_run) ==
            IF inner.thrown # "none"
              THEN [st |-> [st EXCEPT !.bm = inner.bm, !.thrown = inner.thrown],
                    new_runs |-> acc.new_runs]
              ELSE drained(drain(inner, elements_in_new_run, <<>>),
                           run0, elements_in_new_run)
        allocated(run0, elements_in_new_run) ==
            merged(initialize(
                       [m |-> MergerNew(st.m.m_memory_to_use - memory_for_write_buffers),
                        d |-> cur_runs(elements_in_new_run),
                        bm |-> new_blocks(st.bm, run0),
                        thrown |-> "none"]),
                   run0, elements_in_new_run)
        sized(elements_in_new_run) ==
            allocated(fresh_run(st.bm, div_ceil(elements_in_new_run, block_type_size)),
                      elements_in_new_run)
    IN  IF runs2merge > 1
          THEN sized(SumSeq(sizes))
          ELSE [st |-> st,
                new_runs |-> [acc.new_runs EXCEPT
                                 !.runs = Append(@, st.d.runs[Len(st.d.runs)]),
                                 !.runs_sizes = Append(@, st.d.runs_sizes[Len(st.d.runs_sizes)])]]

\* one iteration of "while (runs_left > 0)": merges the next group of
\* runs of st.d into new_runs; acc = [st, new_runs]
merge_group(acc, nruns, runs_left, merge_factor) ==
    LET st         == acc.st
        runs2merge == Min(runs_left, merge_factor)
        first      == nruns - runs_left
        group      == SubSeq(st.d.runs, first + 1, first + runs2merge)
        sizes      == SubSeq(st.d.runs_sizes, first + 1, first + runs2merge)
        cur_runs(elements_in_new_run) ==
            [runs |-> group, runs_sizes |-> sizes,
             elements |-> elements_in_new_run, small_run |-> <<>>]
        \* the new run is written and the merged runs are freed
        written(drst, vals, run0, elements_in_new_run) ==
            [st |-> [st EXCEPT !.bm = delete_blocks(
                                          write_run(drst.bm, run0, vals, 1),
                                          DescBids(cur_runs(elements_in_new_run)))],
             new_runs |-> [acc.new_runs EXCEPT
                              !.runs = Append(@,
                                  [j \in 1..Len(run0) |->
                                      [bid |-> run0[j].bid,
                                       value |-> BlockOf(vals, j - 1)[1]]]),
                              !.runs_sizes = Append(@, elements_in_new_run)]]
        \* the inner merger is drained into the buffered writer
        drained(dr, run0, elements_in_new_run) ==
            written(dr.st,
                    fill_with_max_value(dr.out, Len(run0), elements_in_new_run),
                    run0, elements_in_new_run)
        merged(inner, run0, elements_in_new_run) ==
            IF inner.thrown # "none"
              THEN [st |-> [st EXCEPT !.bm = inner.bm, !.thrown = inner.thrown],
                    new_runs |-> acc.new_runs]
              ELSE drained(drain(inner, elements_in_new_run, <<>>),
                           run0, elements_in_new_run)
        allocated(run0, elements_in_new_run) ==
            merged(initialize(
                       [m |-> MergerNew(st.m.m_memory_to_use - memory_for_write_buffers),
                        d |-> cur_runs(elements_in_new_run),
                        bm |-> new_blocks(st.bm, run0),
                        thrown |-> "none"]),
                   run0, elements_in_new_run)
        sized(elements_in_new_run) ==
            allocated(fresh_run(st.bm, div_ceil(elements_in_new_run, block_type_size)),
                      elements_in_new_run)
    IN  IF runs2merge > 1
          THEN sized(SumSeq(sizes))
          ELSE [st |-> st,
                new_runs |-> [acc.new_runs EXCEPT
                                 !.runs = Append(@, st.d.runs[Len(st.d.runs)]),
                                 !.runs_sizes = Append(@, st.d.runs_sizes[Len(st.d.runs_sizes)])]]

RECURSIVE merge_groups(_, _, _, _)
merge_groups(acc, nruns, runs_left, merge_factor) ==
    IF runs_left = 0 \/ acc.st.thrown # "none" THEN acc
    ELSE merge_groups(merge_group(acc, nruns, runs_left, merge_factor),
                      nruns, runs_left - Min(runs_left, merge_factor), merge_factor)

\* fault: a merge phase whose new descriptor starts with no elements
merge_pass_uncounted(st, nruns, merge_factor) ==
    LET new_runs == [runs |-> <<>>, runs_sizes |-> <<>>,
                     elements |-> 0, small_run |-> <<>>]
        swapped(acc) == IF acc.st.thrown # "none" THEN acc.st
                        ELSE [acc.st EXCEPT !.d = acc.new_runs]
    IN  swapped(merge_groups([st |-> st, new_runs |-> new_runs],
                             nruns, nruns, merge_factor))

\* one iteration of "while (nruns > max_arity)": a merge phase, then
\* m_sruns->runs.clear() and m_sruns->swap(new_runs)
merge_pass(st, nruns, merge_factor) ==
    LET new_runs == [runs |-> <<>>, runs_sizes |-> <<>>,
                     elements |-> st.d.elements, small_run |-> <<>>]
        swapped(acc) == IF acc.st.thrown # "none" THEN acc.st
                        ELSE [acc.st EXCEPT !.d = acc.new_runs]
    IN  swapped(merge_groups([st |-> st, new_runs |-> new_runs],
                             nruns, nruns, merge_factor))

RECURSIVE merge_passes(_, _, _)
merge_passes(st, arity, merge_factor) ==
    IF Len(st.d.runs) > arity /\ st.thrown = "none"
      THEN merge_passes(merge_pass(st, Len(st.d.runs), merge_factor), arity, merge_factor)
      ELSE st

\* fault: groups of one run more than the merge factor
merge_recursively_wide(st) ==
    merge_passes(st, max_arity(st.m.m_memory_to_use),
                 optimal_merge_factor(Len(st.d.runs), max_arity(st.m.m_memory_to_use)) + 1)

\* no merge_recursively call is in progress
NotMerging ==
    [active |-> FALSE, max_arity |-> 0, merge_factor |-> 0,
     runs_left |-> 0, new_runs |-> EmptyRuns]

\* fault: a merge factor of one
merge_recursively_unit(st) ==
    [active |-> TRUE,
     max_arity |-> max_arity(st.m.m_memory_to_use),
     merge_factor |-> 1,
     runs_left |-> 0, new_runs |-> EmptyRuns]

\* the locals merge_recursively computes before its loop
merge_recursively_locals(st) ==
    [active |-> TRUE,
     max_arity |-> max_arity(st.m.m_memory_to_use),
     merge_factor |-> optimal_merge_factor(Len(st.d.runs), max_arity(st.m.m_memory_to_use)),
     runs_left |-> 0, new_runs |-> EmptyRuns]

\* basic_runs_merger::merge_recursively
merge_recursively(st) ==
    merge_passes(st, max_arity(st.m.m_memory_to_use),
                 optimal_merge_factor(Len(st.d.runs), max_arity(st.m.m_memory_to_use)))

\* the part of initialize that allocates the prefetcher and the loser tree
\* and stages the first output block
start_merge(st) ==
    LET nruns == Len(st.d.runs)
        allocated(cseq) ==
            [st EXCEPT !.m = [deallocate_prefetcher(@) EXCEPT
                                 !.m_consume_seq = cseq,
                                 !.m_prefetcher = "live",
                                 !.losers = "live",
                                 !.m_losers = [i \in 1..nruns |->
                                     [buffer |-> read(st.bm, cseq[i].bid), pos |-> 0]],
                                 !.pos = nruns],
                       !.bm.used = TRUE]
    IN  fill_buffer_block(allocated(stable_sort(Flatten(st.d.runs))))

\* basic_runs_merger::initialize(sruns), sruns being st.d
initialize(st) ==
    LET m0 == [st.m EXCEPT !.m_sruns = "set", !.m_elements_remaining = st.d.elements]
        s0 == [st EXCEPT !.m = m0]
    IN  IF merger_empty(m0) THEN s0
        ELSE IF st.d.small_run # <<>>
          THEN [s0 EXCEPT !.m.base = "small",
                          !.m.m_current_ptr = 0,
                          !.m.m_current_end = Len(st.d.small_run)]
        ELSE IF needs_recursion(m0.m_memory_to_use, Len(st.d.runs))
          THEN IF insufficient_memory(m0.m_memory_to_use)
                 THEN [s0 EXCEPT !.thrown = "InsufficientMemory"]
                 ELSE LET recursed(s1) ==
                              IF s1.thrown # "none" THEN s1
                              ELSE IF ~(Len(s1.d.runs) + min_prefetch_buffers
                                          <= input_buffers(m0.m_memory_to_use))
                                THEN [s1 EXCEPT !.thrown = "assert"]
                              ELSE start_merge(s1)
                      IN  recursed(merge_recursively(s0))
        ELSE start_merge(s0)

(***************************************************************************)
(* The sorter container.                                                   *)
(***************************************************************************)
VARIABLES
    m_state,          \* STATE_INPUT / STATE_OUTPUT
    m_runs_creator,   \* the push-mode creator
    m_runs_merger,    \* the merger
    m_result,         \* the sorted_runs object creator and merger share
    bm,               \* the block manager
    ub,               \* the assertion or undefined behaviour that ended the run
    thrown,           \* the exception that left the last operation
    pushed,           \* sorted: the elements pushed since construction or clear()
                      \* and not dropped by finish_clear()
    out,              \* the elements read since the last sort
    full_out,         \* what draining the merger emits, from the last sort on
    first_full,       \* full_out of the sort before the last rewind()
    ample_out,        \* what a merger with an ample budget emits for the runs
    rewound,          \* the last sort was a rewind()
    cleared,          \* clear() was called
    rec_mem,          \* the budget under which the last initialize found a
                      \* single-pass merge infeasible (0: it found it feasible)
    m_input,          \* the input stream of the stream-mode creator
    merging           \* the locals of a merge_recursively call in progress:
                      \* max_arity and merge_factor, and inside a merge phase
                      \* runs_left and new_runs

vars == <<m_state, m_runs_creator, m_runs_merger, m_result, bm, ub, thrown,
          pushed, out, full_out, first_full, ample_out, rewound, cleared, rec_mem,
          m_input, ctor, merging>>

\* merger budgets, in bytes: room for one run in a single pass (LowMem),
\* exactly what recursive merging needs (TightMem), one block short of it
\* (ShortMem), and enough to merge all runs in one pass (AmpleMem)
LowMem    == (min_prefetch_buffers + 1) * raw_size + sizeof_block
TightMem  == (2 * min_prefetch_buffers + 1 + 2) * raw_size
ShortMem  == TightMem - raw_size
AmpleMem  == (div_ceil(RecPush, m_el_in_run) + min_prefetch_buffers + 1) * raw_size + sizeof_block
MergerMems == {LowMem, TightMem}
RecMems == {ShortMem, TightMem}

CState == [c |-> m_runs_creator, d |-> m_result, bm |-> bm]
MState(m, cst) == [m |-> m, d |-> cst.d, bm |-> cst.bm, thrown |-> "none"]

\* basic_runs_creator::basic_runs_creator and runs_creator<use_push>'s
\* constructor: m_memsize is set, then the memory test throws or not
Constructed(memory_to_use, block_size, factor) ==
    [memory_to_use |-> memory_to_use, block_size |-> block_size, factor |-> factor,
     m_memsize |-> memsize(memory_to_use, block_size, factor),
     outcome |-> IF creator_throws(memory_to_use, block_size, factor)
                   THEN "InsufficientMemory" ELSE "constructed"]

\* sorter::sorter with a merger budget of mems, without the input stream
\* and the constructor call
Sorter(mems) ==
    /\ m_state = "INPUT"
    /\ m_runs_merger \in {MergerNew(mem) : mem \in mems}
    /\ m_result = EmptyRuns
    /\ bm = BmInit
    /\ ub = "none"
    /\ thrown = "none"
    /\ pushed = <<>>
    /\ out = <<>>
    /\ full_out = <<>>
    /\ first_full = <<>>
    /\ ample_out = <<>>
    /\ rewound = FALSE
    /\ cleared = FALSE
    /\ rec_mem = 0
    /\ merging = NotMerging

InitWith(mems) ==
    /\ ctor = Constructed(CreatorBlocks * B, B, sort_memory_usage_factor)
    /\ Sorter(mems)
    /\ m_runs_creator = [CreatorNew EXCEPT !.half = 1, !.m_write_reqs = NoReqs]
    /\ m_input = <<>>

Init == InitWith(MergerMems)

Running == ub = "none" /\ thrown = "none"

\* what the merger emits for the finished descriptor under an ample budget
AmpleDrain(cst) == drain(initialize(MState(MergerNew(AmpleMem), cst)), cst.d.elements, <<>>).out

\* the end of sort(), sort_reuse() and rewind(): initialize the merger on
\* the creator's result and switch to STATE_OUTPUT
EnterOutput(m, cst, from_state, op) ==
    \E st \in {initialize(MState(m, cst))} :
        /\ m_runs_creator' = cst.c
        /\ m_runs_merger' = st.m
        /\ m_result' = st.d
        /\ bm' = st.bm
        /\ thrown' = st.thrown
        /\ m_state' = IF st.thrown = "none" THEN "OUTPUT" ELSE from_state
        /\ rec_mem' = IF /\ cst.d.elements # 0 /\ cst.d.small_run = <<>>
                          /\ needs_recursion(m.m_memory_to_use, Len(cst.d.runs))
                         THEN m.m_memory_to_use ELSE 0
        /\ ample_out' = AmpleDrain(cst)
        /\ full_out' = IF st.thrown = "none"
                         THEN drain(st, st.m.m_elements_remaining, <<>>).out
                         ELSE <<>>
        /\ rewound' = (op = "rewind")
        /\ first_full' = IF op = "rewind" THEN full_out ELSE <<>>
        /\ out' = <<>>

\* sorter::push
Push(val) ==
    /\ Running /\ m_state = "INPUT"
    /\ IF m_runs_creator.m_result_computed
         THEN /\ ub' = "push_after_result"
              /\ UNCHANGED <<m_runs_creator, m_result, bm, pushed>>
         ELSE \E st \in {creator_push(CState, val)} :
                  /\ m_runs_creator' = st.c
                  /\ m_result' = st.d
                  /\ bm' = st.bm
                  /\ pushed' = Insert(pushed, val)
                  /\ ub' = ub
    /\ UNCHANGED <<m_state, m_runs_merger, thrown, out, full_out, first_full, ample_out, rewound, cleared, rec_mem>>
    /\ UNCHANGED <<m_input, ctor, merging>>

\* sorter::sort
Sort ==
    /\ Running
    /\ LET m1 == IF m_state = "OUTPUT" THEN merger_deallocate(m_runs_merger)
                                        ELSE m_runs_merger
       IN  \E cst \in {deallocate(CState)} : EnterOutput(m1, cst, m_state, "sort")
    /\ UNCHANGED <<ub, pushed, cleared>>
    /\ UNCHANGED <<m_input, ctor, merging>>

\* fault: a sort_reuse that finalizes the creator as sort() does
SortReuse_deallocates ==
    /\ Running /\ m_state = "INPUT"
    /\ \E cst \in {deallocate(CState)} :
          EnterOutput(m_runs_merger, cst, m_state, "sort_reuse")
    /\ UNCHANGED <<ub, pushed, cleared>>
    /\ UNCHANGED <<m_input, ctor, merging>>

\* sorter::sort_reuse
SortReuse ==
    /\ Running /\ m_state = "INPUT"
    /\ \E cst \in {result(CState)} :
          EnterOutput(m_runs_merger, cst, m_state, "sort_reuse")
    /\ UNCHANGED <<ub, pushed, cleared>>
    /\ UNCHANGED <<m_input, ctor, merging>>

\* fault: a rewind that leaves the merger where the caller stopped reading
Rewind_resumes ==
    /\ Running /\ m_state = "OUTPUT"
    /\ full_out' = drain(MState(m_runs_merger, CState),
                         m_runs_merger.m_elements_remaining, <<>>).out
    /\ first_full' = full_out
    /\ rewound' = TRUE
    /\ out' = <<>>
    /\ UNCHANGED <<m_state, m_runs_creator, m_runs_merger, m_result, bm, thrown,
                   ample_out, rec_mem>>
    /\ UNCHANGED <<ub, pushed, cleared>>
    /\ UNCHANGED <<m_input, ctor, merging>>

\* sorter::rewind
Rewind ==
    /\ Running /\ m_state = "OUTPUT"
    /\ \E cst \in {deallocate(CState)} :
          EnterOutput(merger_deallocate(m_runs_merger), cst, "INPUT", "rewind")
    /\ UNCHANGED <<ub, pushed, cleared>>
    /\ UNCHANGED <<m_input, ctor, merging>>

\* no operation of the sorter reads the merger's output position in
\* STATE_INPUT, and initialize sets it anew for a non-empty input before
\* the next read: the model does not carry it through STATE_INPUT
input_view(m) ==
    [m EXCEPT !.m_elements_remaining = 0, !.m_buffer_block = <<>>, !.base = "none",
              !.m_current_ptr = 0, !.m_current_end = 0, !.losers = "null"]

\* sorter::clear
Clear ==
    /\ ub = "none"
    /\ \E cancelled \in SUBSET SlotRequests(CState) :
          \E st \in {allocate(CState, cancelled)} :
              /\ Cardinality(st.bm.wpend) <= MaxStale
              /\ m_runs_creator' = st.c
              /\ m_result' = st.d
              /\ bm' = st.bm
    /\ m_runs_merger' = input_view(IF m_state = "OUTPUT"
                                      THEN merger_deallocate(m_runs_merger)
                                      ELSE m_runs_merger)
    /\ m_state' = "INPUT"
    /\ thrown' = "none"
    /\ pushed' = <<>>
    /\ out' = <<>>
    /\ full_out' = <<>>
    /\ first_full' = <<>>
    /\ ample_out' = <<>>
    /\ rewound' = FALSE
    /\ cleared' = TRUE
    /\ rec_mem' = 0
    /\ UNCHANGED ub
    /\ UNCHANGED <<m_input, ctor, merging>>

\* sorter::finish
Finish ==
    /\ Running
    /\ m_runs_merger' = IF m_state = "OUTPUT" THEN merger_deallocate(m_runs_merger)
                                               ELSE m_runs_merger
    /\ \E st \in {deallocate(CState)} :
           /\ m_runs_creator' = st.c
           /\ m_result' = st.d
           /\ bm' = st.bm
    /\ UNCHANGED <<m_state, ub, thrown, pushed, out, full_out, first_full, ample_out, rewound, cleared, rec_mem>>
    /\ UNCHANGED <<m_input, ctor, merging>>

\* sorter::finish_clear
FinishClear ==
    /\ Running
    /\ m_runs_merger' = IF m_state = "OUTPUT" THEN merger_deallocate(m_runs_merger)
                                               ELSE m_runs_merger
    /\ \E st \in {deallocate(IF m_state = "OUTPUT"
                                 THEN sruns_clear(result(CState)) ELSE CState)} :
           /\ m_runs_creator' = st.c
           /\ m_result' = st.d
           /\ bm' = st.bm
    /\ pushed' = IF m_state = "OUTPUT" THEN <<>> ELSE pushed
    /\ full_out' = IF m_state = "OUTPUT" THEN <<>> ELSE full_out
    /\ UNCHANGED <<m_state, ub, thrown, out, first_full, ample_out, rewound, cleared, rec_mem>>
    /\ UNCHANGED <<m_input, ctor, merging>>

\* fault: a set_merger_memory_to_use that puts the sorter back into
\* STATE_INPUT
SetMergerMemory_resets(mem) ==
    /\ Running
    /\ mem # m_runs_merger.m_memory_to_use
    /\ m_runs_merger' = [m_runs_merger EXCEPT !.m_memory_to_use = mem]
    /\ m_state' = "INPUT"
    /\ UNCHANGED <<m_runs_creator, m_result, bm, ub, thrown, pushed, out,
                   full_out, first_full, ample_out, rewound, cleared, rec_mem>>
    /\ UNCHANGED <<m_input, ctor, merging>>

\* sorter::set_merger_memory_to_use
SetMergerMemory(mem) ==
    /\ Running
    /\ mem # m_runs_merger.m_memory_to_use
    /\ m_runs_merger' = [m_runs_merger EXCEPT !.m_memory_to_use = mem]
    /\ UNCHANGED <<m_state, m_runs_creator, m_result, bm, ub, thrown, pushed, out,
                   full_out, first_full, ample_out, rewound, cleared, rec_mem>>
    /\ UNCHANGED <<m_input, ctor, merging>>

\* the caller reads operator* and calls operator++ on a non-empty stream
Advance ==
    /\ Running /\ m_state = "OUTPUT"
    /\ ~merger_empty(m_runs_merger)
    /\ LET st == MState(m_runs_merger, CState)
           m  == m_runs_merger
       IN  IF m.base = "small" /\ m.m_current_ptr >= Len(m_result.small_run)
             THEN /\ ub' = "read_of_cleared_small_run"
                  /\ UNCHANGED <<m_runs_merger, bm, out>>
           ELSE IF m.m_current_ptr = m.m_current_end
             THEN /\ ub' = "assert_current_ptr_at_end"
                  /\ UNCHANGED <<m_runs_merger, bm, out>>
           ELSE IF refill_due(m) /\ m.losers # "live"
             THEN /\ ub' = "refill_on_deallocated"
                  /\ out' = Append(out, merger_current(st))
                  /\ UNCHANGED <<m_runs_merger, bm>>
           ELSE \E s1 \in {merger_advance(st)} :
                    /\ m_runs_merger' = s1.m
                    /\ bm' = s1.bm
                    /\ out' = Append(out, merger_current(st))
                    /\ ub' = ub
    /\ UNCHANGED <<m_state, m_runs_creator, m_result, thrown, pushed, full_out,
                   first_full, ample_out, rewound, cleared, rec_mem>>
    /\ UNCHANGED <<m_input, ctor, merging>>

\* the block manager completes a pending write request
CompleteWrite ==
    /\ ub = "none"
    /\ \E r \in bm.wpend :
          /\ bm' = Land(bm, r)
          /\ m_runs_creator' = [m_runs_creator EXCEPT !.m_write_reqs =
                 [i \in DOMAIN @ |-> IF @[i] = r.bid THEN 0 ELSE @[i]]]
    /\ UNCHANGED <<m_state, m_runs_merger, m_result, ub, thrown,
                   pushed, out, full_out, first_full, ample_out, rewound, cleared, rec_mem>>
    /\ UNCHANGED <<m_input, ctor, merging>>

\* sorter::size
sorter_size ==
    IF m_state = "INPUT" THEN creator_size(m_runs_creator, m_result)
                         ELSE merger_size(m_runs_merger)

\* sorter::empty
sorter_empty == merger_empty(m_runs_merger)

Next ==
    \/ \E val \in Val : Len(pushed) < MaxPush /\ Push(val)
    \/ Sort
    \/ SortReuse
    \/ Rewind
    \/ Clear
    \/ Finish
    \/ FinishClear
    \/ \E mem \in MergerMems : SetMergerMemory(mem)
    \/ Advance
    \/ CompleteWrite

Spec == Init /\ [][Next]_vars

(***************************************************************************)
(* The caller that pushes up to RecPush elements, sorts with the budget    *)
(* that forces recursive merging, reads and rewinds.                       *)
(***************************************************************************)
InitRec == InitWith(RecMems)

NextRec ==
    \/ \E val \in Val : Len(pushed) < RecPush /\ Push(val)
    \/ Sort
    \/ Rewind
    \/ Advance

SpecRec == InitRec /\ [][NextRec]_vars

(***************************************************************************)
(* The two front ends on inputs of up to StreamLen elements.  Either a     *)
(* stream::sort object is built on an input stream (its constructor runs   *)
(* the stream-mode creator and initializes the merger on the result;       *)
(* m_runs_creator is then that creator, m_runs_merger its merger), or a    *)
(* sorter is fed by push() and sorted.  The caller then reads.             *)
(***************************************************************************)
Streams == UNION {[1..n -> Val] : n \in 0..StreamLen}

\* basic_runs_creator::basic_runs_creator
StreamCreatorNew == [m_result_computed |-> FALSE]

stream_mode == ~("half" \in DOMAIN m_runs_creator)

InitStream ==
    /\ ctor = Constructed(CreatorBlocks * B, B, sort_memory_usage_factor)
    /\ Sorter(MergerMems)
    /\ \/ /\ m_runs_creator = StreamCreatorNew
          /\ m_input \in Streams
       \/ /\ m_runs_creator = [CreatorNew EXCEPT !.half = 1, !.m_write_reqs = NoReqs]
          /\ m_input = <<>>

\* basic_runs_creator::result
stream_result(c, st) ==
    IF ~c.m_result_computed
      THEN [c |-> [c EXCEPT !.m_result_computed = TRUE],
            s |-> stream_compute_result(st)]
      ELSE [c |-> c, s |-> st]

\* stream::sort::sort
StreamSort ==
    /\ Running /\ m_state = "INPUT" /\ stream_mode
    /\ \E r \in {stream_result(m_runs_creator,
                               [input |-> m_input, d |-> m_result,
                                bm |-> bm, reqs |-> NoReqs])} :
          /\ EnterOutput(m_runs_merger, [c |-> r.c, d |-> r.s.d, bm |-> r.s.bm],
                         m_state, "sort")
          /\ m_input' = r.s.input
    /\ pushed' = sort_range(m_input)
    /\ UNCHANGED <<ub, cleared, ctor, merging>>

NextStream ==
    \/ StreamSort
    \/ \E val \in Val : ~stream_mode /\ Len(pushed) < StreamLen /\ Push(val)
    \/ ~stream_mode /\ Sort
    \/ Advance

SpecStream == InitStream /\ [][NextStream]_vars

\* the stream sorter with a creator of two or of four blocks
InitHalves ==
    /\ ctor \in {Constructed(CreatorBlocks * B, B, sort_memory_usage_factor),
                 Constructed(ScenarioBlocks * B, B, sort_memory_usage_factor)}
    /\ Sorter(MergerMems)
    /\ \/ /\ m_runs_creator = StreamCreatorNew
          /\ m_input \in Streams
       \/ /\ m_runs_creator = [CreatorNew EXCEPT !.half = 1, !.m_write_reqs = NoReqs]
          /\ m_input = <<>>

SpecHalves == InitHalves /\ [][NextStream]_vars

(***************************************************************************)
(* basic_runs_creator::compute_result step by step.  The creator carries   *)
(* the locals of the call: pc the position in it, Blocks1 and Blocks2 the  *)
(* contents of the two memory halves as the pointers of these names see    *)
(* them, at the half Blocks1 points to (1: the lower one), m_write_reqs    *)
(* the block id targeted by write_reqs[i] (0: null or done) and run the    *)
(* run written last.  A write request remembers the half it was issued     *)
(* from, and the block manager may complete it at any time.                *)
(***************************************************************************)
StepCreatorNew ==
    [m_result_computed |-> FALSE, pc |-> "first", Blocks1 |-> <<>>, Blocks2 |-> <<>>,
     at |-> 1, m_write_reqs |-> NoReqs, run |-> <<>>]

\* the write requests issued from a block of the given half and not completed
outstanding(bmgr, half) == {r \in bmgr.wpend : r.half = half}

\* a stream creator of two or four blocks of B elements or of four blocks
\* of one element
InitSteps ==
    /\ ctor \in {Constructed(CreatorBlocks * B, B, sort_memory_usage_factor),
                 Constructed(ScenarioBlocks * B, B, sort_memory_usage_factor),
                 Constructed(ScenarioBlocks, 1, sort_memory_usage_factor)}
    /\ Sorter({TightMem})
    /\ m_runs_creator = StepCreatorNew
    /\ m_input \in Streams

\* run.resize; new_blocks; fill_with_max_value; the loop that waits for
\* slot i and writes block i of the given half
write_half(bmgr, reqs, half, buf, len) ==
    LET n == div_ceil(len, block_type_size)
        issued(run0) ==
            write_blocks([c   |-> [m_write_reqs |-> reqs, half |-> half],
                          bm  |-> new_blocks(bmgr, run0),
                          run |-> run0],
                         fill_with_max_value(buf, n, len), 0, n)
    IN  issued(fresh_run(bmgr, n))

\* compute_result returns; stream::sort then initializes its merger
StreamDone(d, bmgr) ==
    /\ EnterOutput(m_runs_merger,
                   [c  |-> [m_runs_creator EXCEPT !.m_result_computed = TRUE,
                                                  !.pc = "done",
                                                  !.m_write_reqs = NoReqs],
                    d  |-> d, bm |-> bmgr],
                   m_state, "sort")
    /\ m_input' = <<>>

\* from the start to the fetch of the second half: the first run is
\* fetched, sorted and, unless it is a small input, written
StreamBegin ==
    /\ Running /\ m_state = "INPUT" /\ m_runs_creator.pc = "first"
    /\ LET blocks1_length == Min(m_el_in_run, Len(m_input))
           rest == SubSeq(m_input, blocks1_length + 1, Len(m_input))
           written(Blocks1) ==
               \E w \in {stream_write([input |-> rest, d |-> m_result, bm |-> bm,
                                       reqs |-> NoReqs], Blocks1, blocks1_length)} :
                  LET d1 == [m_result EXCEPT !.runs = Append(@, w.run),
                                             !.runs_sizes = Append(@, blocks1_length),
                                             !.elements = @ + blocks1_length]
                  IN  IF rest = <<>>
                        THEN StreamDone(d1, wait_slots(w.bm, w.c.m_write_reqs, 1))
                        ELSE /\ m_runs_creator' =
                                  [m_runs_creator EXCEPT !.pc = "second",
                                                         !.Blocks1 = Blocks1,
                                                         !.m_write_reqs = w.c.m_write_reqs,
                                                         !.run = w.run]
                             /\ m_result' = d1
                             /\ bm' = w.bm
                             /\ m_input' = rest
                             /\ UNCHANGED <<m_state, m_runs_merger, thrown, rec_mem,
                                            ample_out, full_out, rewound, first_full, out>>
           sorted(Blocks1) ==
               IF blocks1_length <= block_type_size /\ rest = <<>>
                 THEN StreamDone([m_result EXCEPT !.small_run = Blocks1,
                                                  !.elements = blocks1_length], bm)
                 ELSE written(Blocks1)
       IN  sorted(sort_run(SubSeq(m_input, 1, blocks1_length), blocks1_length))
    /\ pushed' = sort_range(m_input)
    /\ UNCHANGED <<ub, cleared, ctor, merging>>

\* "Filling the second part of the allocated blocks": the fetch into
\* Blocks2 and, when input is left, the second run
StreamSecond ==
    /\ Running /\ m_state = "INPUT" /\ m_runs_creator.pc = "second"
    /\ LET blocks2_length == Min(m_el_in_run, Len(m_input))
           rest == SubSeq(m_input, blocks2_length + 1, Len(m_input))
           fetched == SubSeq(m_input, 1, blocks2_length)
       IN  IF rest = <<>>
             THEN /\ m_runs_creator' = [m_runs_creator EXCEPT !.pc = "both",
                                                              !.Blocks2 = fetched]
                  /\ UNCHANGED <<m_result, bm>>
             ELSE \E w \in {write_half(bm, m_runs_creator.m_write_reqs, 3 - m_runs_creator.at,
                                       sort_run(fetched, blocks2_length), blocks2_length)} :
                     /\ m_runs_creator' =
                            [m_runs_creator EXCEPT !.pc = "loop",
                                                   !.Blocks2 = sort_run(fetched, blocks2_length),
                                                   !.m_write_reqs = w.c.m_write_reqs,
                                                   !.run = w.run]
                     /\ m_result' = add_run(m_result, w.run, blocks2_length)
                     /\ bm' = w.bm
    /\ m_input' = SubSeq(m_input, Min(m_el_in_run, Len(m_input)) + 1, Len(m_input))
    /\ UNCHANGED <<m_state, m_runs_merger, thrown, rec_mem, ample_out, full_out,
                   rewound, first_full, out, ub, cleared, ctor, merging, pushed>>

\* "optimization if the whole set fits into both halves": both halves are
\* sorted as one range, then the requests are awaited, the first run is
\* freed and the whole is written as one run
StreamBoth ==
    /\ Running /\ m_state = "INPUT" /\ m_runs_creator.pc = "both"
    /\ \E s \in {stream_two_halves([input |-> m_runs_creator.Blocks2, d |-> m_result,
                                    bm |-> bm, reqs |-> m_runs_creator.m_write_reqs],
                                   m_runs_creator.Blocks1, m_runs_creator.run)} :
          StreamDone(s.d, s.bm)
    /\ UNCHANGED <<ub, cleared, ctor, merging, pushed>>

\* one round of "while (!m_input.empty())": fetch into Blocks1, sort,
\* write, add_run and swap the halves
StreamLoop ==
    /\ Running /\ m_state = "INPUT" /\ m_runs_creator.pc = "loop" /\ m_input # <<>>
    /\ LET blocks1_length == Min(m_el_in_run, Len(m_input))
           fetched == sort_run(SubSeq(m_input, 1, blocks1_length), blocks1_length)
       IN  \E w \in {write_half(bm, m_runs_creator.m_write_reqs, m_runs_creator.at,
                                fetched, blocks1_length)} :
              /\ m_runs_creator' =
                     [m_runs_creator EXCEPT !.Blocks1 = m_runs_creator.Blocks2,
                                            !.Blocks2 = fetched,
                                            !.at = 3 - @,
                                            !.m_write_reqs = w.c.m_write_reqs,
                                            !.run = w.run]
              /\ m_result' = add_run(m_result, w.run, blocks1_length)
              /\ bm' = w.bm
    /\ m_input' = SubSeq(m_input, Min(m_el_in_run, Len(m_input)) + 1, Len(m_input))
    /\ UNCHANGED <<m_state, m_runs_merger, thrown, rec_mem, ample_out, full_out,
                   rewound, first_full, out, ub, cleared, ctor, merging, pushed>>

\* the end of the loop: wait_all(write_reqs, write_reqs + m2)
StreamEnd ==
    /\ Running /\ m_state = "INPUT" /\ m_runs_creator.pc = "loop" /\ m_input = <<>>
    /\ StreamDone(m_result, wait_slots(bm, m_runs_creator.m_write_reqs, 1))
    /\ UNCHANGED <<ub, cleared, ctor, merging, pushed>>

NextSteps ==
    \/ StreamBegin
    \/ StreamSecond
    \/ StreamBoth
    \/ StreamLoop
    \/ StreamEnd
    \/ m_state = "INPUT" /\ CompleteWrite
    \/ Advance

SpecSteps == InitSteps /\ [][NextSteps]_vars

(***************************************************************************)
(* The merger with STXXL_PARALLEL_MULTIWAY_MERGE.  The merger carries, in  *)
(* addition, seqs: the unread rest of the block each sequence points into  *)
(* (buffers with it), num_currently_mergeable, and the locals of a         *)
(* fill_buffer_block call: filling while the call is in its loop, rest,    *)
(* and staged, the elements merged into m_buffer_block by the call.        *)
(***************************************************************************)
ParMergerNew(memory_to_use) ==
    [m_memory_to_use |-> memory_to_use, m_sruns |-> "null",
     m_elements_remaining |-> 0, m_buffer_block |-> <<>>,
     base |-> "none", m_current_ptr |-> 0, m_current_end |-> 0,
     m_consume_seq |-> <<>>, m_prefetcher |-> "null", pos |-> 0,
     m_losers |-> <<>>, losers |-> "null",
     seqs |-> <<>>, num_currently_mergeable |-> 0,
     filling |-> FALSE, rest |-> 0, staged |-> <<>>]

\* std::upper_bound(first, second, bound, cmp) - first on a sorted sequence
RECURSIVE upper_bound(_, _)
upper_bound(seq, bound) ==
    IF seq = <<>> \/ cmp(bound, Head(seq)) THEN 0
    ELSE 1 + upper_bound(Tail(seq), bound)

\* fault: the count of the elements before the bound
RECURSIVE count_elements_less(_, _)
count_elements_less(seqs, bound) ==
    IF seqs = <<>> THEN 0
    ELSE Cardinality({k \in 1..Len(Head(seqs)) : cmp(Head(seqs)[k], bound)})
             + count_elements_less(Tail(seqs), bound)

\* sort_helper::count_elements_less_equal
RECURSIVE count_elements_less_equal(_, _)
count_elements_less_equal(seqs, bound) ==
    IF seqs = <<>> THEN 0
    ELSE upper_bound(Head(seqs), bound) + count_elements_less_equal(Tail(seqs), bound)

\* block_prefetcher::empty
prefetcher_empty(m) == m.pos >= Len(m.m_consume_seq)

\* sort_helper::refill_or_remove_empty_sequences, from sequence i on:
\* block_consumed hands out the next block of the consume sequence
RECURSIVE refill_or_remove_empty_sequences(_, _)
refill_or_remove_empty_sequences(st, i) ==
    IF i > Len(st.m.seqs) THEN st
    ELSE IF st.m.seqs[i] # <<>> THEN refill_or_remove_empty_sequences(st, i + 1)
    ELSE IF ~prefetcher_empty(st.m)
      THEN refill_or_remove_empty_sequences(
               [st EXCEPT !.m.seqs[i] = read(st.bm, st.m.m_consume_seq[st.m.pos + 1].bid),
                          !.m.pos = @ + 1,
                          !.bm.used = TRUE], i + 1)
      ELSE refill_or_remove_empty_sequences(
               [st EXCEPT !.m.seqs = SubSeq(@, 1, i - 1) \o SubSeq(@, i + 1, Len(@))], i)

\* the sequence multiway_merge takes its next element from: the first
\* non-empty one that no other non-empty one precedes
Smallest(seqs) ==
    CHOOSE i \in DOMAIN seqs :
        /\ seqs[i] # <<>>
        /\ \A j \in DOMAIN seqs : seqs[j] # <<>> => ~cmp(seqs[j][1], seqs[i][1])
        /\ \A k \in 1..(i - 1) :
              seqs[k] = <<>> \/ \E j \in DOMAIN seqs : seqs[j] # <<>> /\ cmp(seqs[j][1], seqs[k][1])

\* potentially_parallel::multiway_merge(seqs.begin(), seqs.end(), out, n, cmp):
\* the n smallest elements go to out and the sequences advance
RECURSIVE multiway_merge(_, _, _)
multiway_merge(seqs, n, acc) ==
    IF n = 0 THEN [seqs |-> seqs, out |-> acc]
    ELSE IF \A i \in DOMAIN seqs : seqs[i] = <<>>
      THEN multiway_merge(seqs, n - 1, Append(acc, Junk))
    ELSE LET i == Smallest(seqs)
         IN  multiway_merge([seqs EXCEPT ![i] = Tail(@)], n - 1, Append(acc, seqs[i][1]))

\* the test and the recomputation of num_currently_mergeable at the head of
\* the loop of fill_buffer_block
mergeable(m) ==
    IF m.num_currently_mergeable < m.rest
      THEN IF m.m_prefetcher = "null" \/ prefetcher_empty(m)
             THEN m.m_elements_remaining
             ELSE count_elements_less_equal(m.seqs, m.m_consume_seq[m.pos + 1].value)
      ELSE m.num_currently_mergeable

\* one round of the loop of fill_buffer_block and, when the loop ends with
\* it, the rest of fill_buffer_block: the pointers are set and the
\* structures are torn down when nothing is left to merge
par_round(st) ==
    LET output_size == Min(mergeable(st.m), st.m.rest)
        merged(mm) ==
            refill_or_remove_empty_sequences(
                [st EXCEPT !.m.seqs = mm.seqs,
                           !.m.staged = @ \o mm.out,
                           !.m.rest = @ - output_size,
                           !.m.num_currently_mergeable = mergeable(st.m) - output_size], 1)
        staged(s1) ==
            [s1 EXCEPT !.m = [(IF @.m_elements_remaining <= block_type_size
                                 THEN [deallocate_prefetcher(@) EXCEPT !.seqs = <<>>] ELSE @)
                              EXCEPT !.m_buffer_block =
                                         s1.m.staged \o SubSeq(s1.m.m_buffer_block,
                                                               Len(s1.m.staged) + 1,
                                                               block_type_size),
                                     !.base = "buf",
                                     !.m_current_ptr = 0,
                                     !.m_current_end =
                                         Min(block_type_size, s1.m.m_elements_remaining),
                                     !.filling = FALSE]]
        looped(s1) == IF s1.m.rest > 0 /\ Len(s1.m.seqs) > 0 THEN s1 ELSE staged(s1)
    IN  looped(merged(multiway_merge(st.m.seqs, output_size, <<>>)))

\* the part of initialize that allocates the prefetcher and pulls the
\* blocks of the sequences, up to the loop of the first fill_buffer_block
par_start(st) ==
    LET nruns == Len(st.d.runs)
        allocated(cseq) ==
            [st EXCEPT !.m = [deallocate_prefetcher(@) EXCEPT
                                 !.m_consume_seq = cseq,
                                 !.m_prefetcher = "live",
                                 !.seqs = [i \in 1..nruns |-> read(st.bm, cseq[i].bid)],
                                 !.pos = nruns,
                                 !.filling = TRUE, !.rest = block_type_size,
                                 !.staged = <<>>],
                       !.bm.used = TRUE]
    IN  allocated(stable_sort(Flatten(st.d.runs)))

\* sorter::sort and sorter::rewind with a merger that needs a single pass:
\* deallocate, result, initialize up to the loop of fill_buffer_block
ParSort ==
    /\ Running /\ ~m_runs_merger.filling
    /\ \E cst \in {deallocate(CState)} :
          /\ ~needs_recursion(m_runs_merger.m_memory_to_use, Len(cst.d.runs))
          /\ LET m0 == [[deallocate_prefetcher(m_runs_merger) EXCEPT !.seqs = <<>>]
                            EXCEPT !.m_sruns = "set",
                                   !.m_elements_remaining = cst.d.elements]
                 s0 == MState(m0, cst)
             IN  \E s1 \in {IF merger_empty(m0) THEN s0
                            ELSE IF cst.d.small_run # <<>>
                              THEN [s0 EXCEPT !.m.base = "small",
                                              !.m.m_current_ptr = 0,
                                              !.m.m_current_end = Len(cst.d.small_run)]
                            ELSE par_start(s0)} :
                    /\ m_runs_merger' = s1.m
                    /\ bm' = s1.bm
          /\ m_runs_creator' = cst.c
          /\ m_result' = cst.d
    /\ m_state' = "OUTPUT"
    /\ out' = <<>>
    /\ UNCHANGED <<ub, thrown, pushed, full_out, first_full, ample_out, rewound,
                   cleared, rec_mem, m_input, ctor, merging>>

\* the next round of the loop of a fill_buffer_block call in progress
ParRound ==
    /\ Running /\ m_runs_merger.filling
    /\ \E s1 \in {par_round(MState(m_runs_merger, CState))} :
          /\ m_runs_merger' = s1.m
          /\ bm' = s1.bm
    /\ UNCHANGED <<m_state, m_runs_creator, m_result, ub, thrown, pushed, out, full_out,
                   first_full, ample_out, rewound, cleared, rec_mem, m_input, ctor, merging>>

\* the caller reads operator* and calls operator++, up to the loop of
\* fill_buffer_block when a refill is due
ParAdvance ==
    /\ Running /\ m_state = "OUTPUT" /\ ~m_runs_merger.filling
    /\ ~merger_empty(m_runs_merger)
    /\ IF m_runs_merger.m_current_ptr = m_runs_merger.m_current_end
         THEN /\ ub' = "assert_current_ptr_at_end"
              /\ UNCHANGED <<m_runs_merger, out>>
       ELSE IF refill_due(m_runs_merger) /\ m_runs_merger.m_prefetcher # "live"
         THEN /\ ub' = "refill_on_deallocated"
              /\ out' = Append(out, merger_current(MState(m_runs_merger, CState)))
              /\ UNCHANGED m_runs_merger
       ELSE /\ m_runs_merger' =
                  [m_runs_merger EXCEPT !.m_elements_remaining = @ - 1,
                                        !.m_current_ptr = @ + 1,
                                        !.filling = refill_due(m_runs_merger),
                                        !.rest = IF refill_due(m_runs_merger)
                                                   THEN block_type_size ELSE @,
                                        !.staged = IF refill_due(m_runs_merger)
                                                     THEN <<>> ELSE @]
            /\ out' = Append(out, merger_current(MState(m_runs_merger, CState)))
            /\ ub' = ub
    /\ UNCHANGED <<m_state, m_runs_creator, m_result, bm, thrown, pushed, full_out,
                   first_full, ample_out, rewound, cleared, rec_mem, m_input, ctor, merging>>

\* a sorter with runs of two blocks and a parallel merger with the memory
\* of a single pass
InitPar ==
    /\ ctor = Constructed(ScenarioBlocks * B, B, sort_memory_usage_factor)
    /\ m_state = "INPUT"
    /\ m_runs_merger = ParMergerNew(AmpleMem)
    /\ m_result = EmptyRuns
    /\ bm = BmInit
    /\ ub = "none" /\ thrown = "none"
    /\ pushed = <<>> /\ out = <<>> /\ full_out = <<>> /\ first_full = <<>>
    /\ ample_out = <<>> /\ rewound = FALSE /\ cleared = FALSE /\ rec_mem = 0
    /\ merging = NotMerging
    /\ m_runs_creator = [CreatorNew EXCEPT !.half = 1, !.m_write_reqs = NoReqs]
    /\ m_input = <<>>

\* the caller pushes, sorts or rewinds, reads, and clears the sorter while
\* it reads
NextPar ==
    \/ \E val \in Val : m_state = "INPUT" /\ Len(pushed) < ParPush /\ Push(val)
    \/ ParSort
    \/ ParRound
    \/ ParAdvance
    \/ m_state = "OUTPUT" /\ ~m_runs_merger.filling /\ Clear

SpecPar == InitPar /\ [][NextPar]_vars

(***************************************************************************)
(* The constructor of a run creator, called with any memory_to_use,        *)
(* BlockSize and memory usage factor.                                      *)
(***************************************************************************)
InitCtor ==
    /\ ctor \in [memory_to_use : 0..MaxMemory, block_size : 1..MaxBlockSize,
                  factor : 1..MaxFactor, m_memsize : {0}, outcome : {"called"}]
    /\ Sorter(MergerMems)
    /\ m_runs_creator = [CreatorNew EXCEPT !.half = 1, !.m_write_reqs = NoReqs]
    /\ m_input = <<>>

\* runs_creator<use_push>::runs_creator, basic_runs_creator::basic_runs_creator
Construct ==
    /\ ctor.outcome = "called"
    /\ ctor' = Constructed(ctor.memory_to_use, ctor.block_size, ctor.factor)
    /\ UNCHANGED <<m_state, m_runs_creator, m_runs_merger, m_result, bm, ub, thrown,
                   pushed, out, full_out, first_full, ample_out, rewound, cleared, rec_mem,
                   m_input, merging>>

NextCtor == Construct

SpecCtor == InitCtor /\ [][NextCtor]_vars

(***************************************************************************)
(* The push-mode creator alone: the caller interleaves push(), clear() and *)
(* result() while the disk completes write requests in any order.          *)
(***************************************************************************)
\* runs_creator<use_push>::result, called by the owner of the creator
CreatorResult ==
    /\ Running /\ m_state = "INPUT"
    /\ \E st \in {result(CState)} :
           /\ m_runs_creator' = st.c
           /\ m_result' = st.d
           /\ bm' = st.bm
    /\ UNCHANGED <<m_state, m_runs_merger, ub, thrown, pushed, out, full_out,
                   first_full, ample_out, rewound, cleared, rec_mem>>
    /\ UNCHANGED <<m_input, ctor, merging>>

NextCreator ==
    \/ \E val \in Val : Len(pushed) < MaxPush /\ Push(val)
    \/ Clear
    \/ CreatorResult
    \/ CompleteWrite

SpecCreator == Init /\ [][NextCreator]_vars

(***************************************************************************)
(* A sorter whose merger is given any budget from nothing up to the budget *)
(* that merges every input in a single pass: the caller pushes up to       *)
(* RecPush elements, sorts and reads.                                      *)
(***************************************************************************)
Budgets == 0..AmpleMem

InitBudget == InitWith(Budgets)

NextBudget ==
    \/ \E val \in Val : Len(pushed) < RecPush /\ Push(val)
    \/ Sort
    \/ Advance

SpecBudget == InitBudget /\ [][NextBudget]_vars

(***************************************************************************)
(* sort() with the loop of merge_recursively taken one merge phase at a    *)
(* time: the caller pushes up to RecPush elements and calls sort(); when   *)
(* initialize enters merge_recursively, each iteration of                  *)
(* "while (nruns > max_arity)" is a step, and the rest of initialize runs  *)
(* when the loop ends.  The merger budget is any budget from the least     *)
(* that merges recursively up to one that merges every input in one pass.  *)
(***************************************************************************)
PassBudgets == TightMem..AmpleMem

InitPasses == InitWith(PassBudgets)

\* initialize reaches its call of merge_recursively
enters_recursion(m, d) ==
    /\ d.elements # 0
    /\ d.small_run = <<>>
    /\ needs_recursion(m.m_memory_to_use, Len(d.runs))
    /\ ~insufficient_memory(m.m_memory_to_use)

\* sorter::sort up to the loop of merge_recursively, or to its end when
\* initialize does not merge recursively
SortBegin ==
    /\ Running /\ ~merging.active
    /\ LET m1 == IF m_state = "OUTPUT" THEN merger_deallocate(m_runs_merger)
                                        ELSE m_runs_merger
       IN  \E cst \in {deallocate(CState)} :
               IF enters_recursion(m1, cst.d)
                 THEN /\ m_runs_creator' = cst.c
                      /\ m_result' = cst.d
                      /\ bm' = cst.bm
                      /\ m_runs_merger' = [m1 EXCEPT !.m_sruns = "set",
                                                     !.m_elements_remaining = cst.d.elements]
                      /\ merging' = merge_recursively_locals(MState(m1, cst))
                      /\ rec_mem' = m1.m_memory_to_use
                      /\ UNCHANGED <<m_state, thrown, out, full_out, first_full,
                                     ample_out, rewound>>
                 ELSE /\ EnterOutput(m1, cst, m_state, "sort")
                      /\ UNCHANGED merging
    /\ UNCHANGED <<ub, pushed, cleared>>
    /\ UNCHANGED <<m_input, ctor>>

\* one iteration of "while (nruns > max_arity)" in merge_recursively
MergePass ==
    /\ Running /\ merging.active
    /\ Len(m_result.runs) > merging.max_arity
    /\ \E st \in {merge_pass(MState(m_runs_merger, CState), Len(m_result.runs),
                              merging.merge_factor)} :
           /\ m_runs_merger' = st.m
           /\ m_result' = st.d
           /\ bm' = st.bm
           /\ thrown' = st.thrown
           /\ merging' = IF st.thrown = "none" THEN merging ELSE NotMerging
    /\ UNCHANGED <<m_state, m_runs_creator, ub, pushed, out, full_out, first_full,
                   ample_out, rewound, cleared, rec_mem>>
    /\ UNCHANGED <<m_input, ctor>>

\* the loop of merge_recursively ends; initialize checks its assertion,
\* allocates the prefetcher and the loser tree and stages the first block,
\* and sort() switches to STATE_OUTPUT
MergeEnd ==
    /\ Running /\ merging.active
    /\ ~(Len(m_result.runs) > merging.max_arity)
    /\ LET checked(s1) ==
               IF ~(Len(s1.d.runs) + min_prefetch_buffers
                      <= input_buffers(s1.m.m_memory_to_use))
                 THEN [s1 EXCEPT !.thrown = "assert"]
                 ELSE start_merge(s1)
       IN  \E st \in {checked(MState(m_runs_merger, CState))} :
               /\ m_runs_merger' = st.m
               /\ m_result' = st.d
               /\ bm' = st.bm
               /\ thrown' = st.thrown
               /\ m_state' = IF st.thrown = "none" THEN "OUTPUT" ELSE m_state
               /\ full_out' = IF st.thrown = "none"
                                THEN drain(st, st.m.m_elements_remaining, <<>>).out
                                ELSE <<>>
    /\ ample_out' = AmpleDrain(CState)
    /\ out' = <<>>
    /\ first_full' = <<>>
    /\ rewound' = FALSE
    /\ merging' = NotMerging
    /\ UNCHANGED <<m_runs_creator, ub, pushed, cleared, rec_mem>>
    /\ UNCHANGED <<m_input, ctor>>

NextPasses ==
    \/ \E val \in Val : Len(pushed) < RecPush /\ ~merging.active /\ Push(val)
    \/ SortBegin
    \/ MergePass
    \/ MergeEnd

SpecPasses == InitPasses /\ [][NextPasses]_vars

(***************************************************************************)
(* sort() with merge_recursively taken one group of runs at a time: each   *)
(* iteration of "while (runs_left > 0)" is a step, and so is the end of a  *)
(* merge phase, where the run list of m_sruns is cleared and new_runs is   *)
(* swapped in.  The caller pushes, sorts and reads.                        *)
(***************************************************************************)
\* a merge phase has merged a group and has not yet swapped new_runs in
MidPass == merging.active /\ merging.new_runs.runs # <<>>

\* one iteration of "while (runs_left > 0)", the first one of a merge
\* phase after "new_runs.elements = m_sruns->elements; runs_left = nruns"
MergeGroup ==
    /\ Running /\ merging.active
    /\ IF MidPass THEN merging.runs_left > 0
                  ELSE Len(m_result.runs) > merging.max_arity
    /\ LET nruns == Len(m_result.runs)
           merged(runs_left, new_runs) ==
               \E acc \in {merge_group([st |-> MState(m_runs_merger, CState),
                                         new_runs |-> new_runs],
                                        nruns, runs_left, merging.merge_factor)} :
                   /\ m_runs_merger' = acc.st.m
                   /\ m_result' = acc.st.d
                   /\ bm' = acc.st.bm
                   /\ thrown' = acc.st.thrown
                   /\ merging' = IF acc.st.thrown # "none" THEN NotMerging
                                  ELSE [merging EXCEPT
                                           !.runs_left = runs_left - Min(runs_left, merging.merge_factor),
                                           !.new_runs = acc.new_runs]
       IN  IF MidPass
             THEN merged(merging.runs_left, merging.new_runs)
             ELSE merged(nruns, [EmptyRuns EXCEPT !.elements = m_result.elements])
    /\ UNCHANGED <<m_state, m_runs_creator, ub, pushed, out, full_out, first_full,
                   ample_out, rewound, cleared, rec_mem>>
    /\ UNCHANGED <<m_input, ctor>>

\* fault: a merge phase that ends without swapping new_runs in
PassEnd_keeps ==
    /\ Running /\ MidPass
    /\ merging.runs_left = 0
    /\ merging' = NotMerging
    /\ UNCHANGED <<m_state, m_runs_creator, m_runs_merger, m_result, bm, ub, thrown,
                   pushed, out, full_out, first_full, ample_out, rewound, cleared, rec_mem>>
    /\ UNCHANGED <<m_input, ctor>>

\* the end of a merge phase: m_sruns->runs.clear(); m_sruns->swap(new_runs)
PassEnd ==
    /\ Running /\ MidPass
    /\ merging.runs_left = 0
    /\ m_result' = merging.new_runs
    /\ merging' = [merging EXCEPT !.new_runs = EmptyRuns]
    /\ UNCHANGED <<m_state, m_runs_creator, m_runs_merger, bm, ub, thrown, pushed, out,
                   full_out, first_full, ample_out, rewound, cleared, rec_mem>>
    /\ UNCHANGED <<m_input, ctor>>

NextGroups ==
    \/ \E val \in Val : Len(pushed) < RecPush /\ ~merging.active /\ Push(val)
    \/ SortBegin
    \/ MergeGroup
    \/ PassEnd
    \/ ~MidPass /\ MergeEnd
    \/ ~merging.active /\ Advance

SpecGroups == InitPasses /\ [][NextGroups]_vars

(***************************************************************************)
(* The push-mode creator with a memory of ScenarioBlocks blocks of B       *)
(* elements, so that a run spans several blocks: the caller pushes up to   *)
(* RecPush elements, clears and asks for the result while the disk         *)
(* completes write requests in any order.                                  *)
(***************************************************************************)
InitRuns ==
    /\ ctor = Constructed(ScenarioBlocks * B, B, sort_memory_usage_factor)
    /\ Sorter(MergerMems)
    /\ m_runs_creator = [CreatorNew EXCEPT !.half = 1, !.m_write_reqs = NoReqs]
    /\ m_input = <<>>

NextRuns ==
    \/ \E val \in Val : Len(pushed) < RecPush /\ Push(val)
    \/ Clear
    \/ CreatorResult
    \/ CompleteWrite

SpecRuns == InitRuns /\ [][NextRuns]_vars

(***************************************************************************)
(* The end-to-end scenario: a sorter built with one budget of              *)
(* ScenarioBlocks blocks of ScenarioB elements for its creator, and for    *)
(* its merger either the least budget the merger works with or the budget  *)
(* recursive merging needs.  The caller pushes up to ScenarioPush          *)
(* elements, sorts and reads.                                              *)
(***************************************************************************)
InitScenario ==
    /\ ctor = Constructed(ScenarioBlocks * ScenarioB, ScenarioB, sort_memory_usage_factor)
    /\ Sorter(MergerMems)
    /\ m_runs_creator = [CreatorNew EXCEPT !.half = 1, !.m_write_reqs = NoReqs]
    /\ m_input = <<>>

NextScenario ==
    \/ \E val \in Val : Len(pushed) < ScenarioPush /\ Push(val)
    \/ Sort
    \/ Advance

SpecScenario == InitScenario /\ [][NextScenario]_vars

(***************************************************************************)
(* Properties.  pushed is the sorted sequence of the elements pushed since *)
(* construction or the last clear(), out the elements read since the last  *)
(* sort(), sort_reuse() or rewind(), full_out what a complete drain from   *)
(* that call emits, first_full the full_out of the drain before the last   *)
(* rewind(), ample_out what a merger with a budget for one pass emits for  *)
(* the same descriptor, rec_mem the budget of the last initialize that     *)
(* found a single pass infeasible (0 otherwise).                           *)
(***************************************************************************)
\* the sorter is in STATE_OUTPUT with an initialized merger and no call
\* has failed
Reading == m_state = "OUTPUT" /\ Running /\ m_runs_merger.m_sruns = "set"

prefix_of(s, t) == Len(s) <= Len(t) /\ s = SubSeq(t, 1, Len(s))

\* C1: the values read after sort() are non-decreasing under cmp: for
\* consecutive outputs a then b, cmp(b, a) is false.
C1_Sortedness == Reading => is_sorted(out)

C1_Witness ==
    /\ Reading /\ sorter_empty
    /\ Len(out) = MaxPush /\ out[1] # out[MaxPush]
    /\ Len(m_result.runs) = div_ceil(MaxPush, m_el_in_run)

\* C2: when the caller has pushed, sorted and read until empty(), the
\* elements read are a permutation of the elements pushed, sentinels
\* included, for every number of runs; no such use runs into undefined
\* behaviour.
C2_Permutation ==
    /\ ub = "none"
    /\ (Reading /\ sorter_empty) => sort_range(out) = pushed

C2_Witness ==
    /\ Reading /\ sorter_empty /\ rec_mem # 0
    /\ Len(out) = RecPush
    /\ min_value \in Range(out) /\ max_value \in Range(out)

\* C3: size() after sort() is the number of elements pushed, each advance
\* takes one off it, and empty() is true exactly when size() is 0.
C3_Size ==
    Reading => /\ sorter_size + Len(out) = Len(pushed)
               /\ sorter_empty <=> (sorter_size = 0)

C3_Witness ==
    /\ Reading /\ ~cleared /\ ~rewound
    /\ Len(pushed) = MaxPush /\ Len(out) = 2 /\ sorter_size = MaxPush - 2

C6_SmallInput ==
    (m_state = "OUTPUT" /\ Running /\ Len(pushed) \in 1..block_type_size) =>
        /\ bm.alloc = {} /\ ~bm.used /\ bm.wpend = {}
        /\ m_result.runs = <<>> /\ m_result.small_run = pushed
        /\ full_out = pushed /\ prefix_of(out, pushed)

C6_Witness ==
    /\ stream_mode /\ m_state = "OUTPUT" /\ Running
    /\ Len(pushed) = block_type_size /\ out = pushed /\ out[1] # out[block_type_size]
    /\ m_input = <<>>

\* C7: a merger whose budget forces recursive merge passes, and allows
\* them, emits the sequence a merger with an ample budget emits for the
\* same input.
C7_Recursive ==
    (rec_mem # 0 /\ rec_mem >= TightMem) =>
        /\ thrown = "none"
        /\ full_out = ample_out
        /\ prefix_of(out, ample_out)

C7_Witness ==
    /\ rec_mem = TightMem /\ Reading /\ sorter_empty
    /\ Len(out) = RecPush /\ out[1] # out[RecPush]

\* C8: the constructor of a run creator throws exactly when
\* 2 * BlockSize * memory_usage_factor > M, which is exactly m < 2 for
\* m = M / BlockSize / memory_usage_factor; when it returns, m2 = m / 2 >= 1.
C8_Constructor ==
    ctor.outcome # "called" =>
        /\ (ctor.outcome = "InsufficientMemory")
              <=> (2 * ctor.block_size * ctor.factor > ctor.memory_to_use)
        /\ (ctor.outcome = "InsufficientMemory") <=> (ctor.m_memsize < 2)
        /\ (ctor.outcome = "constructed") => (ctor.m_memsize \div 2 >= 1)

C8_Witness ==
    /\ ctor.outcome = "constructed"
    /\ ctor.m_memsize = 2 /\ ctor.factor = MaxFactor /\ ctor.block_size > 1
    /\ ctor.memory_to_use > 2 * ctor.block_size * ctor.factor

\* C9 as stated: when a single pass is infeasible, initialize aborts with
\* InsufficientMemory if max_arity < 3.
C9_AsStated ==
    (rec_mem # 0 /\ max_arity(rec_mem) < 3) => thrown = "InsufficientMemory"

\* C9: when a single pass is infeasible, initialize aborts with
\* InsufficientMemory exactly when fewer than 2 * P_min + 3 blocks fit in
\* the budget, that is when max_arity < 2, and merges recursively
\* otherwise; it never aborts when a single pass is feasible, the
\* descriptor is empty or it carries a small-run buffer.
C9_InsufficientMemory ==
    /\ thrown \in {"none", "InsufficientMemory"}
    /\ (thrown = "InsufficientMemory") <=> (rec_mem # 0 /\ max_arity(rec_mem) < 2)
    /\ (rec_mem # 0 /\ max_arity(rec_mem) >= 2) =>
           /\ Reading
           /\ Len(m_result.runs) <= max_arity(rec_mem)

C9_Witness ==
    /\ rec_mem # 0 /\ max_arity(rec_mem) = 2
    /\ Reading /\ Len(pushed) = RecPush

\* C10: when the push-mode creator's result() has returned, no write
\* request for a block of a run named in the descriptor is pending.
C10_WritesDone ==
    (~stream_mode /\ m_runs_creator.m_result_computed) =>
        \A r \in bm.wpend : r.bid \notin DescBids(m_result)

C10_Witness ==
    /\ m_runs_creator.m_result_computed /\ m_state = "INPUT"
    /\ Len(pushed) = m_el_in_run + 1
    /\ Len(m_result.runs) = 2
    /\ bm.wpend = {}

C12_States ==
    /\ m_state = "INPUT"
    /\ [](m_state \in {"INPUT", "OUTPUT"})
    /\ [][/\ ((Sort \/ SortReuse \/ Rewind) /\ thrown' = "none") => m_state' = "OUTPUT"
          /\ Clear => m_state' = "INPUT"
          /\ (\/ \E val \in Val : Push(val)
              \/ Finish
              \/ FinishClear
              \/ \E mem \in MergerMems : SetMergerMemory(mem)
              \/ Advance) => m_state' = m_state]_vars

C12_Witness ==
    /\ m_state = "OUTPUT" /\ Running
    /\ cleared /\ rewound /\ Len(out) = 2
    /\ m_runs_merger.m_memory_to_use = LowMem

\* C13: whenever the sorter is in STATE_INPUT and no call has failed, a
\* push() is forwarded to a creator whose result is not computed and
\* whose input buffers are allocated.
C13_PushForwarded ==
    (m_state = "INPUT" /\ Running) =>
        /\ ~m_runs_creator.m_result_computed
        /\ m_runs_creator.half # 0

\* C14: in STATE_INPUT size() is the number of elements pushed since
\* construction or the last clear(), whichever of push(), finish(),
\* finish_clear() and set_merger_memory_to_use() were called.
C14_InputSize ==
    (m_state = "INPUT" /\ Running) => sorter_size = Len(pushed)

\* what sort() (in STATE_OUTPUT: rewind()) emits when read to the end,
\* called on a sorter in state `state` with merger m and creator state cst
SortOutputOf(state, m, cst) ==
    LET emitted(st) == IF st.thrown = "none"
                         THEN drain(st, st.m.m_elements_remaining, <<>>).out
                         ELSE <<st.thrown>>
    IN  emitted(initialize(MState(IF state = "OUTPUT" THEN merger_deallocate(m) ELSE m,
                                  deallocate(cst))))

SortOutput == SortOutputOf(m_state, m_runs_merger, CState)

\* C15: finish() releases the buffers of the creator and of the merger
\* and keeps the pushed elements in the descriptor: a sort() (in
\* STATE_OUTPUT a rewind()) after it emits what it would have emitted
\* without the finish(), the pushed elements in sorted order.
C15_Finish ==
    [][Finish => /\ m_runs_creator'.half = 0
                 /\ m_runs_creator'.m_blocks1 = <<>>
                 /\ m_runs_merger'.m_prefetcher = "null"
                 /\ m_runs_merger'.losers # "live"
                 /\ SortOutputOf(m_state', m_runs_merger',
                                 [c |-> m_runs_creator', d |-> m_result', bm |-> bm'])
                        = SortOutput
                 /\ SortOutput \in {pushed, <<"InsufficientMemory">>}]_vars

C15_Witness ==
    /\ m_state = "OUTPUT" /\ Running
    /\ m_runs_merger.m_sruns = "null" /\ m_runs_creator.half = 0
    /\ Len(pushed) = MaxPush /\ Len(out) = 2
    /\ SortOutput = pushed

\* C16: after finish_clear(), called in STATE_INPUT or STATE_OUTPUT, the
\* descriptor has no runs, no small-run buffer and an element count of 0.
C16_FinishClear ==
    [][FinishClear => m_result' = EmptyRuns]_vars

\* C17: in STATE_OUTPUT with the stream not empty,
\* next_output_would_block() is true exactly when the next advance()
\* refills the output buffer.
C17_WouldBlock ==
    (Reading /\ ~sorter_empty) =>
        (next_output_would_block(m_runs_merger) <=> refill_due(m_runs_merger))

\* the cells of the blocks of a run, as they are on disk
run_cells(run) == Flatten([j \in 1..Len(run) |-> read(bm, run[j].bid)])

\* C18: MAX padding is not emitted: the staged range is the first
\* min(B, remaining) cells of the output buffer, the merger emits as many
\* elements as were pushed (the pushed elements, sorted), and the cells
\* after the elements of every run, written by the creator or by a
\* recursive pass, hold MAX and stay on disk.  Cells are told apart by
\* their values.
C18_Padding ==
    Reading =>
        /\ m_runs_merger.base = "buf" =>
               m_runs_merger.m_current_end =
                   Min(block_type_size, m_runs_merger.m_elements_remaining + m_runs_merger.m_current_ptr)
        /\ full_out = pushed
        /\ sorter_size + Len(out) = Len(pushed)
        /\ \A r \in DOMAIN m_result.runs :
               /\ Len(run_cells(m_result.runs[r])) = block_type_size * Len(m_result.runs[r])
               /\ \A k \in (m_result.runs_sizes[r] + 1)..(block_type_size * Len(m_result.runs[r])) :
                      run_cells(m_result.runs[r])[k] = max_value

C18_Witness ==
    /\ Reading /\ sorter_empty /\ rec_mem # 0
    /\ Len(out) = RecPush /\ out[1] # out[RecPush]
    /\ m_runs_merger.m_current_end = RecPush % block_type_size
    /\ \E r \in DOMAIN m_result.runs : m_result.runs_sizes[r] % block_type_size # 0

\* C19 as stated: with 4 elements per block and a creator memory of 4
\* blocks, pushing 8 elements and calling sort() leaves exactly 2 runs of 4
\* elements each, merged in a single pass into the 8 elements in sorted order.
C19_AsStated ==
    (Len(pushed) = ScenarioPush /\ ub = "none" /\ (m_state = "OUTPUT" \/ thrown # "none")) =>
        /\ thrown = "none"
        /\ Len(m_result.runs) = 2
        /\ m_result.runs_sizes = <<ScenarioPush \div 2, ScenarioPush \div 2>>
        /\ rec_mem = 0
        /\ full_out = pushed

\* C19: with 4 elements per block and a creator memory of 4 blocks (a run
\* holds m2 * B = 8 elements), pushing 8 elements and calling sort() leaves
\* exactly 1 run of 8 elements in 2 blocks, which sort() merges in a single
\* pass (no recursive merging, no exception) into the 8 elements in sorted
\* order.
C19_Scenario ==
    (Len(pushed) = ScenarioPush /\ ub = "none" /\ (m_state = "OUTPUT" \/ thrown # "none")) =>
        /\ thrown = "none"
        /\ Len(m_result.runs) = 1
        /\ m_result.runs_sizes = <<ScenarioPush>>
        /\ Len(m_result.runs[1]) = div_ceil(ScenarioPush, block_type_size)
        /\ m_result.elements = ScenarioPush
        /\ rec_mem = 0
        /\ full_out = pushed /\ is_sorted(full_out)
        /\ prefix_of(out, full_out)

C19_Witness ==
    /\ block_type_size = ScenarioB /\ m_memsize = ScenarioBlocks
    /\ m_state = "OUTPUT" /\ Running /\ out = pushed
    /\ Len(out) = ScenarioPush /\ out[1] # out[ScenarioPush]
    /\ m_runs_merger.m_memory_to_use = ScenarioBlocks * ScenarioB

\* C20: sort_reuse() called in state INPUT yields what sort() would yield
\* for the same pushed input (the same output sequence, or the same
\* exception), and, unlike sort(), which always leaves the creator without
\* its input buffers, it releases no input buffer of the creator: a creator
\* that holds its buffers before sort_reuse() holds them after it.
C20_SortReuse ==
    [][/\ SortReuse =>
            /\ (IF thrown' = "none" THEN full_out' ELSE <<thrown'>>)
                   = SortOutputOf("INPUT", m_runs_merger, CState)
            /\ m_runs_creator'.half = m_runs_creator.half
            /\ DOMAIN m_runs_creator'.m_write_reqs = DOMAIN m_runs_creator.m_write_reqs
       /\ Sort => m_runs_creator'.half = 0]_vars

C20_Witness ==
    /\ m_state = "OUTPUT" /\ Running /\ ~rewound
    /\ m_runs_creator.half # 0 /\ m_runs_creator.m_result_computed
    /\ Len(pushed) = MaxPush /\ out = pushed /\ out[1] # out[MaxPush]
    /\ Len(m_result.runs) > 1

\* C21: for every sequence of sorter operations, each called in a state the
\* operations table lists for it, whenever the next advance() triggers a
\* refill in STATE_OUTPUT the merger's prefetcher and merging frontier are
\* allocated: a refill never runs on structures that finish(),
\* finish_clear() or deallocate() have released.
C21_RefillAllocated ==
    (m_state = "OUTPUT" /\ Running /\ ~sorter_empty /\ refill_due(m_runs_merger)) =>
        /\ m_runs_merger.m_prefetcher = "live"
        /\ m_runs_merger.losers = "live"

\* the number of blocks the runs of a descriptor name
RECURSIVE desc_blocks(_)
desc_blocks(runs) == IF runs = <<>> THEN 0 ELSE Len(Head(runs)) + desc_blocks(Tail(runs))

\* C22: in push mode with run size E = m2 * B, pushing N > B elements and
\* finishing leaves the descriptor with exactly ceil(N / E) runs: every run
\* but the last holds exactly E elements in m2 blocks, the last holds the
\* remaining N - (k-1)*E elements in ceil(count / B) blocks, and the number
\* of block ids allocated equals the total number of blocks of these runs
\* (the allocated ids are those the runs name, each named once).
C22_RunLayout ==
    (m_runs_creator.m_result_computed /\ ub = "none" /\ Len(pushed) > block_type_size) =>
        LET N == Len(pushed)
            k == div_ceil(N, m_el_in_run)
        IN  /\ Len(m_result.runs) = k
            /\ Len(m_result.runs_sizes) = k
            /\ m_result.small_run = <<>>
            /\ \A r \in 1..(k - 1) :
                  /\ m_result.runs_sizes[r] = m_el_in_run
                  /\ Len(m_result.runs[r]) = m_m2
            /\ m_result.runs_sizes[k] = N - (k - 1) * m_el_in_run
            /\ Len(m_result.runs[k]) = div_ceil(m_result.runs_sizes[k], block_type_size)
            /\ Cardinality(bm.alloc) = desc_blocks(m_result.runs)
            /\ bm.alloc = DescBids(m_result)

C22_Witness ==
    /\ m_runs_creator.m_result_computed /\ ub = "none" /\ cleared
    /\ m_m2 > 1
    /\ Len(m_result.runs) = 3
    /\ m_result.runs_sizes[3] % block_type_size # 0
    /\ Len(m_result.runs[3]) > 1
    /\ Cardinality(bm.alloc) = 2 * m_m2 + Len(m_result.runs[3])

\* cells: the concatenation of the blocks of a run of nblocks blocks that
\* holds n real elements
well_formed_run(cells, n, nblocks) ==
    /\ Len(cells) = nblocks * block_type_size
    /\ (nblocks - 1) * block_type_size < n /\ n <= nblocks * block_type_size
    /\ \A k \in 1..n : cells[k] \in Val
    /\ is_sorted(SubSeq(cells, 1, n))
    /\ \A k \in (n + 1)..Len(cells) : cells[k] = max_value

\* C23: every run of a finished descriptor, whether written by the creator
\* or by a recursive merge pass, is well formed: the concatenation of its
\* blocks is its real elements in non-decreasing order under cmp followed
\* only by MAX padding, every block but the last holds B real elements, and
\* padding occurs only in the last block.
C23_WellFormed ==
    (m_runs_creator.m_result_computed /\ ub = "none") =>
        \A r \in DOMAIN m_result.runs :
            well_formed_run(run_cells(m_result.runs[r]), m_result.runs_sizes[r],
                            Len(m_result.runs[r]))

C23_Witness ==
    /\ m_runs_creator.m_result_computed /\ Running /\ rec_mem # 0
    /\ m_state = "OUTPUT" /\ Len(pushed) = RecPush
    /\ \E r \in DOMAIN m_result.runs : Len(m_result.runs[r]) > 2
    /\ \E r \in DOMAIN m_result.runs :
          /\ Len(m_result.runs[r]) > 1
          /\ m_result.runs_sizes[r] % block_type_size # 0
          /\ run_cells(m_result.runs[r])[1] # run_cells(m_result.runs[r])[m_result.runs_sizes[r]]

\* C24 as stated: in every finished descriptor, including one that holds a
\* small-run buffer and one rewritten by a recursive merge pass, the total
\* element count equals the sum of the per-run element counts.
C24_AsStated ==
    (m_runs_creator.m_result_computed /\ ub = "none") =>
        m_result.elements = SumSeq(m_result.runs_sizes)

\* C24: in every finished descriptor that holds no small-run buffer,
\* including one rewritten by a recursive merge pass, the total element
\* count equals the sum of the per-run element counts; in one that holds a
\* small-run buffer the total element count is the length of that buffer
\* and there is no run and no per-run count.
C24_ElementCount ==
    (m_runs_creator.m_result_computed /\ ub = "none") =>
        /\ Len(m_result.runs_sizes) = Len(m_result.runs)
        /\ IF m_result.small_run = <<>>
             THEN m_result.elements = SumSeq(m_result.runs_sizes)
             ELSE /\ m_result.elements = Len(m_result.small_run)
                  /\ m_result.runs_sizes = <<>>

C24_Witness ==
    /\ m_runs_creator.m_result_computed /\ Running /\ rec_mem # 0 /\ out # <<>>
    /\ m_result.small_run = <<>>
    /\ m_result.elements = RecPush
    /\ Len(m_result.runs) = 2
    /\ m_result.runs_sizes[1] > m_result.runs_sizes[2]

\* the data of block bid as written to storage: what its write request
\* transports while that request is pending, what the disk holds otherwise
as_written(b, bid) ==
    IF PendingOn(b, bid) # {}
      THEN (CHOOSE r \in PendingOn(b, bid) : TRUE).data
      ELSE read(b, bid)

\* C25: for every run in the descriptor and every block i of that run, the
\* trigger value stored for block i equals the first element of block i as
\* written to storage; this holds for runs flushed by push(), for the final
\* run written by compute_result, and for runs written by a recursive merge
\* pass.
C25_Triggers ==
    ub = "none" =>
        \A r \in DOMAIN m_result.runs :
            \A i \in DOMAIN m_result.runs[r] :
                m_result.runs[r][i].value = as_written(bm, m_result.runs[r][i].bid)[1]

C25_Witness ==
    /\ Running /\ m_state = "OUTPUT" /\ rec_mem # 0 /\ Len(pushed) = RecPush
    /\ Len(m_result.runs) = 2
    /\ \E i \in DOMAIN m_result.runs[1] :
          m_result.runs[1][i].value # m_result.runs[1][1].value
    /\ \E i \in DOMAIN m_result.runs[1] :
          m_result.runs[1][i].value # as_written(bm, m_result.runs[1][i].bid)[block_type_size]
    /\ Len(m_result.runs[2]) = 2 /\ m_result.runs_sizes[2] = 3

\* C26: whenever initialize does not abort with InsufficientMemory, the run
\* count n left after recursive merging satisfies n + P_min <= I, with
\* P_min = 2 * disks and I = (M' - sizeof(out_block)) / raw_block_size, for
\* every memory budget and initial run count; the assertion after the
\* recursive-merge branch never fails.
C26_SinglePassAfterMerge ==
    /\ thrown \in {"none", "InsufficientMemory"}
    /\ (m_state = "OUTPUT" /\ ub = "none" /\ m_result.elements # 0 /\ m_result.small_run = <<>>) =>
           Len(m_result.runs) + min_prefetch_buffers
               <= input_buffers(m_runs_merger.m_memory_to_use)

C26_Witness ==
    /\ m_state = "OUTPUT" /\ Running /\ Len(pushed) = RecPush
    /\ rec_mem > TightMem
    /\ Len(m_result.runs) = max_arity(rec_mem)
    /\ Len(m_result.runs) + min_prefetch_buffers < input_buffers(rec_mem)

\* C27: recursive merging terminates: the merge factor f satisfies
\* 2 <= f <= max_arity, every pass replaces the run count n by
\* ceil(n / f), which is strictly smaller than n and at least 1, and the
\* loop ends with n <= max_arity.  While the loop runs no call has failed
\* and exactly one of "another pass" and "the loop ends" is the next step,
\* so the run count is a variant of the loop: it makes at most n passes.
C27_Terminates ==
    /\ [](merging.active =>
             /\ Running
             /\ 2 <= merging.merge_factor
             /\ merging.merge_factor <= merging.max_arity
             /\ Len(m_result.runs) >= 1)
    /\ [][merging.active =>
            /\ (Len(m_result.runs) > merging.max_arity) => MergePass
            /\ (Len(m_result.runs) <= merging.max_arity) => MergeEnd]_vars
    /\ [][MergePass =>
            /\ thrown' = "none" /\ merging' = merging
            /\ Len(m_result'.runs) = div_ceil(Len(m_result.runs), merging.merge_factor)
            /\ Len(m_result'.runs) < Len(m_result.runs)]_vars
    /\ [][MergeEnd =>
            /\ Len(m_result.runs) <= merging.max_arity
            /\ ~merging'.active
            /\ thrown' = "none" /\ m_state' = "OUTPUT" /\ full_out' = pushed]_vars

C27_Witness ==
    /\ merging.active /\ Running
    /\ merging.merge_factor = 2
    /\ Len(pushed) = RecPush
    /\ Len(m_result.runs) = 3

\* the block ids of the runs of m_sruns that the merge phase in progress
\* has not yet merged or carried over
ids_left ==
    UNION {RunBids(m_result.runs[r]) :
               r \in (Len(m_result.runs) - merging.runs_left + 1)..Len(m_result.runs)}

\* C28 as stated: at every reachable state, including the states between
\* two group merges inside a recursive merge pass, every block id named in
\* the shared result descriptor is currently allocated.
C28_AsStated ==
    ub = "none" => DescBids(m_result) \subseteq bm.alloc

\* C28: at every reachable state outside a recursive merge pass, every
\* block id named in the shared result descriptor is currently allocated.
\* Between two group merges inside a recursive merge pass the descriptor
\* still names the block ids of the groups already merged, which are freed;
\* the ids of the runs not yet merged are allocated, and so are the ids of
\* the new descriptor, which names none of them.
C28_Ownership ==
    ub = "none" =>
        /\ ~MidPass => DescBids(m_result) \subseteq bm.alloc
        /\ MidPass =>
              /\ ids_left \subseteq bm.alloc
              /\ DescBids(merging.new_runs) \subseteq bm.alloc
              /\ ids_left \cap DescBids(merging.new_runs) = {}

C28_Witness ==
    /\ Running /\ MidPass /\ merging.runs_left > 0
    /\ Len(merging.new_runs.runs) = 2
    /\ ~(DescBids(m_result) \subseteq bm.alloc)
    /\ DescBids(m_result) \cap DescBids(merging.new_runs) # {}

\* the block ids of the group of runs the next iteration of
\* "while (runs_left > 0)" merges or carries over
next_group(runs_left) ==
    UNION {RunBids(m_result.runs[r]) :
               r \in (Len(m_result.runs) - runs_left + 1)..
                     (Len(m_result.runs) - runs_left + Min(runs_left, merging.merge_factor))}

\* C29: over a complete recursive merge, every block id of a merged input
\* run is freed exactly once (it is allocated when its group is merged and
\* it is not allocated afterwards), the block ids of a group of size 1,
\* which can only be the last group of a pass, are carried into the new run
\* list unchanged, without being freed or re-allocated and with the block
\* manager left as it is, and every newly allocated block id appears in
\* exactly one run of the new descriptor: when a pass ends the allocated
\* ids are those the new descriptor names, each named once.
C29_FreedOnce ==
    [][/\ MergeGroup =>
            LET runs_left == IF MidPass THEN merging.runs_left ELSE Len(m_result.runs)
                fresh     == DescBids(merging'.new_runs)
                                \ (IF MidPass THEN DescBids(merging.new_runs) ELSE {})
            IN  /\ thrown' = "none"
                /\ next_group(runs_left) \subseteq bm.alloc
                /\ IF Min(runs_left, merging.merge_factor) > 1
                     THEN /\ next_group(runs_left) \cap bm'.alloc = {}
                          /\ fresh \cap bm.alloc = {}
                          /\ bm'.alloc = (bm.alloc \ next_group(runs_left)) \cup fresh
                     ELSE /\ runs_left = 1
                          /\ bm' = bm
                          /\ merging'.new_runs.runs
                                = Append(IF MidPass THEN merging.new_runs.runs ELSE <<>>,
                                         m_result.runs[Len(m_result.runs)])
       /\ PassEnd =>
            /\ bm' = bm
            /\ DescBids(m_result') = bm'.alloc
            /\ Cardinality(DescBids(m_result')) = desc_blocks(m_result'.runs)]_vars

C29_Witness ==
    /\ Running /\ MidPass /\ merging.runs_left = 0
    /\ Len(merging.new_runs.runs) = 3
    /\ merging.new_runs.runs[3] = m_result.runs[Len(m_result.runs)]
    /\ DescBids(merging.new_runs) = bm.alloc
    /\ ~(DescBids(m_result) \subseteq bm.alloc)

\* the data on disk of the blocks of run, in run order, as bmgr holds it
cells_on(bmgr, run) == Flatten([j \in 1..Len(run) |-> read(bmgr, run[j].bid)])

\* C30: in the stream-mode creator, for any input of N elements with
\* B < N <= 2 * E the result is exactly one run containing all N elements
\* in sorted order (padded with MAX to whole blocks), and the block ids
\* provisionally allocated for the first half are freed after their writes
\* have completed: no write is pending and only the block ids of the final
\* run are allocated.
C30_OneRun ==
    [][(/\ StreamSort
        /\ block_type_size < Len(m_input)
        /\ Len(m_input) <= 2 * m_el_in_run) =>
          /\ Len(m_result'.runs) = 1
          /\ m_result'.runs_sizes = <<Len(m_input)>>
          /\ m_result'.elements = Len(m_input)
          /\ m_result'.small_run = <<>>
          /\ Len(m_result'.runs[1]) = div_ceil(Len(m_input), block_type_size)
          /\ cells_on(bm', m_result'.runs[1])
                = sort_range(m_input)
                    \o [i \in 1..(Len(m_result'.runs[1]) * block_type_size - Len(m_input))
                            |-> max_value]
          /\ Cardinality(RunBids(m_result'.runs[1])) = Len(m_result'.runs[1])
          /\ bm'.alloc = RunBids(m_result'.runs[1])
          /\ bm'.wpend = {}
          /\ m_input' = <<>>]_vars

\* both halves were written as one run of more than E elements, not a
\* multiple of B
C30_Witness ==
    /\ stream_mode /\ m_runs_creator.m_result_computed /\ m_state = "OUTPUT"
    /\ m_m2 = 2
    /\ Len(m_result.runs) = 1
    /\ m_result.elements > m_el_in_run
    /\ m_result.elements % block_type_size # 0
    /\ bm.alloc = RunBids(m_result.runs[1])
    /\ Len(m_result.runs[1]) = m_m2 + 1
    /\ out = <<>>

\* C31: in the stream-mode creator no block of either memory half is
\* overwritten by a fetch or reordered by a sort while a write request
\* issued from that block is still outstanding: not when the second half is
\* fetched, not in a round of the general loop, and not in the shortcut
\* that sorts both halves as one range.
C31_NoRace ==
    [][/\ StreamSecond => outstanding(bm, 3 - m_runs_creator.at) = {}
       /\ StreamLoop => outstanding(bm, m_runs_creator.at) = {}
       /\ StreamBoth => outstanding(bm, 1) \cup outstanding(bm, 2) = {}]_vars

\* the position of the entry of block id b in the consume sequence
consume_pos(cseq, b) == CHOOSE k \in 1..Len(cseq) : cseq[k].bid = b

\* C32: after initialize, as long as the prefetcher lives, the consume
\* sequence is a permutation of all blocks of all runs, non-decreasing by
\* trigger value, and the blocks of every run appear in it in their order
\* within the run, also when blocks of one run or of different runs have
\* equal trigger values.
C32_ConsumeOrder ==
    (Running /\ m_state = "OUTPUT" /\ m_runs_merger.m_prefetcher = "live") =>
        LET cseq == m_runs_merger.m_consume_seq
        IN  /\ Len(cseq) = desc_blocks(m_result.runs)
            /\ {cseq[k] : k \in 1..Len(cseq)}
                  = UNION {{m_result.runs[r][j] : j \in 1..Len(m_result.runs[r])} :
                               r \in 1..Len(m_result.runs)}
            /\ Cardinality({cseq[k].bid : k \in 1..Len(cseq)}) = Len(cseq)
            /\ \A k \in 1..(Len(cseq) - 1) : ~cmp(cseq[k + 1].value, cseq[k].value)
            /\ \A r \in 1..Len(m_result.runs) :
                  \A i, j \in 1..Len(m_result.runs[r]) :
                      i < j => consume_pos(cseq, m_result.runs[r][i].bid)
                                 < consume_pos(cseq, m_result.runs[r][j].bid)

\* a run of several blocks with equal trigger values, a second run whose
\* first block has the same trigger value, and a consume sequence that
\* interleaves the two runs
C32_Witness ==
    /\ Running /\ m_state = "OUTPUT" /\ m_runs_merger.m_prefetcher = "live"
    /\ Len(m_result.runs) = 2
    /\ Len(m_result.runs[1]) >= 3
    /\ m_result.runs[1][1].value = m_result.runs[1][2].value
    /\ m_result.runs[1][1].value = m_result.runs[2][1].value
    /\ m_runs_merger.m_consume_seq # Flatten(m_result.runs)

\* the block ids the prefetcher of merger m has delivered and those it has
\* not yet delivered
delivered(m) == {m.m_consume_seq[k].bid : k \in 1..m.pos}
undelivered(m) == {m.m_consume_seq[k].bid : k \in (m.pos + 1)..Len(m.m_consume_seq)}

\* C33: when parallel multiway merge is enabled, the n blocks that
\* initialize pulls from the prefetcher to build the n sequences are the
\* first blocks of the n runs, one block per run.
C33_FirstBlocks ==
    [][(ParSort /\ m_runs_merger'.filling) =>
          delivered(m_runs_merger')
              = {m_result'.runs[r][1].bid : r \in 1..Len(m_result'.runs)}]_vars

\* the elements a round of the refill loop has merged
emitted(m, n) == {n.staged[k] : k \in (IF m.filling THEN Len(m.staged) + 1 ELSE 1)..Len(n.staged)}

\* C34: in parallel mode every element emitted by a refill is not greater
\* under cmp than any element of any block the prefetcher has not yet
\* delivered, also when the mergeable count is carried over from an
\* earlier refill instead of being recomputed.
C34_SafeEmit ==
    [][ParRound =>
          \A e \in emitted(m_runs_merger, m_runs_merger') :
              \A b \in undelivered(m_runs_merger) :
                  \A k \in 1..block_type_size : ~cmp(read(bm, b)[k], e)]_vars

\* C39: in parallel mode the refill loop terminates: in every round with
\* rest > 0 in which the prefetcher is not empty the recomputed mergeable
\* count is at least 1, and each round emits at least one element or
\* removes an exhausted sequence.
C39_Progress ==
    /\ [](/\ Running /\ m_runs_merger.filling
          /\ m_runs_merger.num_currently_mergeable < m_runs_merger.rest
          /\ ~prefetcher_empty(m_runs_merger)
          => /\ m_runs_merger.rest > 0
             /\ mergeable(m_runs_merger) >= 1)
    /\ [](Running /\ m_runs_merger.filling =>
             \/ Min(mergeable(m_runs_merger), m_runs_merger.rest) >= 1
             \/ \E i \in 1..Len(m_runs_merger.seqs) : m_runs_merger.seqs[i] = <<>>)
    /\ [][ParRound =>
             \/ Len(m_runs_merger'.staged) > Len(m_runs_merger.staged)
             \/ Len(m_runs_merger'.seqs) < Len(m_runs_merger.seqs)]_vars

\* a refill in its second round, the count used up by the first, with
\* blocks still to be delivered
C39_Witness ==
    /\ Running /\ m_runs_merger.filling
    /\ 0 < m_runs_merger.rest /\ m_runs_merger.rest < block_type_size
    /\ m_runs_merger.num_currently_mergeable < m_runs_merger.rest
    /\ ~prefetcher_empty(m_runs_merger)
    /\ Len(m_runs_merger.seqs) >= 2


\* C35: a refill after which at most one block of elements remains tears
\* down the prefetcher and the loser tree, whether operator++ or initialize
\* made it; and an operator++ on a merger that is torn down is not a
\* refilling one: it moves the pointer by one inside the same output block
\* and touches nothing else.
C35_LastRefill ==
    [][/\ (Advance /\ refill_due(m_runs_merger)
              /\ m_runs_merger'.m_elements_remaining <= block_type_size)
          => /\ m_runs_merger'.m_prefetcher = "null"
             /\ m_runs_merger'.losers = "deleted"
       /\ ((Sort \/ Rewind) /\ m_state' = "OUTPUT" /\ m_runs_merger'.base = "buf"
              /\ m_runs_merger'.m_elements_remaining \in 1..block_type_size)
          => /\ m_runs_merger'.m_prefetcher = "null"
             /\ m_runs_merger'.losers = "deleted"
       /\ (Advance /\ m_runs_merger.m_prefetcher = "null")
          => /\ ~refill_due(m_runs_merger)
             /\ ub' = "none"
             /\ m_runs_merger'.m_buffer_block = m_runs_merger.m_buffer_block
             /\ m_runs_merger'.m_current_end = m_runs_merger.m_current_end
             /\ m_runs_merger'.m_current_ptr = m_runs_merger.m_current_ptr + 1
             /\ m_runs_merger'.m_prefetcher = "null"
             /\ bm' = bm]_vars

\* the last refill was made by operator++ and has torn the structures down,
\* and the caller has advanced inside the block it staged
C35_Witness ==
    /\ Running /\ m_state = "OUTPUT"
    /\ m_runs_merger.base = "buf"
    /\ m_runs_merger.m_prefetcher = "null"
    /\ m_runs_merger.losers = "deleted"
    /\ Len(out) > block_type_size
    /\ m_runs_merger.m_current_ptr >= 1
    /\ m_runs_merger.m_elements_remaining >= 1


\* C36: in every state of the output phase in which the merger's stream is
\* not empty, the current pointer is strictly before the end pointer, the
\* number of staged elements (end - current) is at most the number of
\* remaining elements, every staged position is a cell of the buffer the
\* pointers point into (the small run or the output block), and the
\* assertion of operator++ that the pointers differ has not failed.
C36_Staged ==
    /\ ub \notin {"assert_current_ptr_at_end", "read_of_cleared_small_run"}
    /\ (Running /\ m_state = "OUTPUT" /\ ~merger_empty(m_runs_merger))
       => /\ m_runs_merger.m_current_ptr < m_runs_merger.m_current_end
          /\ m_runs_merger.m_current_end - m_runs_merger.m_current_ptr
                 <= m_runs_merger.m_elements_remaining
          /\ IF m_runs_merger.base = "small"
               THEN m_runs_merger.m_current_end <= Len(m_result.small_run)
               ELSE m_runs_merger.m_current_end <= Len(m_runs_merger.m_buffer_block)


C38_NoWriteOnReleased ==
    [][Clear => \A b \in DescBids(m_result) :
                    /\ PendingOn(bm, b) = {}
                    /\ PendingOn(bm', b) = {}]_vars


\* C40: the inner merger that merge_recursively builds for a group of more
\* than one run is given the budget minus the write buffers and at most
\* merge_factor <= max_arity runs; its input buffer count is at least the
\* number of its runs plus the minimal prefetch buffers, so its initialize
\* takes the single-pass branch: it neither merges recursively itself nor
\* throws, and the group's step ends without an exception.
C40_SinglePassInner ==
    [][MergeGroup =>
          LET runs_left  == IF MidPass THEN merging.runs_left ELSE Len(m_result.runs)
              runs2merge == Min(runs_left, merging.merge_factor)
              inner      == m_runs_merger.m_memory_to_use - memory_for_write_buffers
          IN  /\ merging.merge_factor <= merging.max_arity
              /\ merging.max_arity = max_arity(m_runs_merger.m_memory_to_use)
              /\ input_buffers(inner) >= runs2merge + min_prefetch_buffers
              /\ ~needs_recursion(inner, runs2merge)
              /\ thrown' = "none"]_vars

\* a group of as many runs as the inner merger can take at most has been
\* merged into one new run
C40_Witness ==
    /\ Running /\ MidPass
    /\ merging.merge_factor = merging.max_arity
    /\ input_buffers(m_runs_merger.m_memory_to_use - memory_for_write_buffers)
          = merging.merge_factor + min_prefetch_buffers
    /\ merging.new_runs.runs_sizes[1] = merging.merge_factor * m_el_in_run

====
